---- MODULE Spec2Model ----
(***************************************************************************)
(* Event-source lifecycle (Connector / BaseTrigger), the source registry,  *)
(* the outbound retry queue and the webhook signature check of genxai.     *)
(***************************************************************************)
EXTENDS Integers, Sequences, FiniteSets, TLC

(* ---------------------------------------------------------------------- *)
(* Bounds                                                                 *)
(* ---------------------------------------------------------------------- *)
\* calls to start()/stop() each client task may issue
MaxOps == 2
\* start_all()/stop_all() runs of the bulk task
MaxBulk == 1
\* start_all()/stop_all() calls, and the registry operations around them,
\* when the bulk calls follow one another
MaxBulkOps == 3
MaxBulkRegOps == 2
\* register()/unregister()/clear() calls
MaxRegOps == 3
\* direct start()/stop() calls of the client task next to the bulk task
MaxClientOps == 1
\* jobs enqueued into the outbound queue
MaxJobs == 2
\* largest max_attempts the outbound queue is constructed with
MaxAttemptsCfg == 3
\* handle_request() calls on the webhook source
MaxRequests == 1
\* subscribers registered with on_event()
MaxSubs == 2
\* emit() calls when subscribers are added between and during emissions
MaxEmits == 2
\* messages put into the backend of a polling or queue source
MaxMsgs == 2
\* start()/stop() calls on a polling or queue source
MaxLoopOps == 2
\* messages a queue service hands out again after their visibility timeout
MaxRedeliveries == 1
\* largest interval_seconds, start()/stop() calls and fired jobs of a
\* scheduled source
MaxInterval == 1
MaxScheduleOps == 3
MaxFires == 2

None == "none"
\* optional strings, byte strings and mappings: absent, or the value
Nothing == <<>>
Some(x) == <<x>>
Hole == "hole"

Sources == {"s1", "s2"}
\* a second source object constructed with the id of s1; the other objects
\* are named by their own id
Twin == "s1b"
Objects == Sources \cup {Twin}
IdOf(s) == IF s = Twin THEN "s1" ELSE s
Clients == {"u1", "u2"}
BulkTask == "bulk"
Tasks == Clients \cup {BulkTask}

VARIABLES
    kind,          \* "connector" or "trigger": which of the two hierarchies
    status,        \* status[s]: ConnectorStatus / TriggerStatus value
    last_error,    \* last_error[s]: Connector._last_error (None when unset)
    lock,          \* lock[s]: task holding the source's asyncio.Lock, or None
    waiters,       \* waiters[s]: FIFO of tasks suspended in lock.acquire()
    startCalls,    \* startCalls[s]: number of invocations of _start()
    stopCalls,     \* stopCalls[s]: number of invocations of _stop()
    validateCalls, \* validateCalls[s]: number of invocations of validate_config()
    raised,        \* raised[s]: number of start()/stop() calls that raised
    calls,         \* calls[t]: the start()/stop() call task t is executing
    opsLeft,       \* opsLeft[t]: calls client t may still issue
    entries,       \* registry dict, as its insertion-ordered entry array
    regOpsLeft,    \* registry membership operations still allowed
    bulk,          \* the start_all()/stop_all() run of the bulk task
    bulksLeft,     \* bulk runs still allowed
    \* OutboundRetryQueueService
    max_attempts,  \* _max_attempts
    worker,        \* _worker: "none", or the worker thread's position in _loop
    held,          \* the job the worker has popped and not yet put back (0: none)
    sendStatus,    \* the status string the last send_fn call returned
    queue,         \* _queue: FIFO of job ids
    dead_letters,  \* _dead_letters: list of job ids
    jobs,          \* jobs[j]: the OutboundRetryJob with id j
    stopEvent,     \* _stop: the stop flag
    stopper,       \* position of the caller of stop()
    snap,          \* the last OutboundRetryQueueSnapshot returned
    sendCalls,     \* sendCalls[j]: number of send_fn calls made for job j
    delivered,     \* ids of the jobs discarded after a "sent:" status
    turns,         \* turns[j]: the queue job j was requeued behind, and the
                   \* jobs send_fn was called for since then
    atStop,        \* when stop() set the flag: the send_fn calls made so
                   \* far and the job the worker held; <<>> before
    \* WebhookConnector / WebhookTrigger
    secret,        \* the configured secret, or None
    hash_alg,      \* the configured hash algorithm
    callbacks,     \* _callbacks: the subscribers, in registration order
    requests,      \* the handle_request() calls made so far, in call order
    cbTasks,       \* the callback invocations created by emit()
    events,        \* the events constructed by emit(), in order
    \* KafkaConnector / SQSConnector / PostgresCDCConnector / QueueTrigger
    lkind,         \* "kafka", "sqs", "cdc" or "queue": which of the sources
    lstatus,       \* the source's status
    lastErr,       \* Connector._last_error of the source
    configOk,      \* whether validate_config() accepts the configuration
    hasSubs,       \* whether _callbacks is non-empty
    tasks,         \* the loop tasks created by _start(), in creation order
    task,          \* _task: index into tasks, 0 for None
    consumer,      \* _consumer (Kafka), _conn (CDC) or _client (Slack) is set
    ctl,           \* the caller of start()/stop(): position and calls left
    msgs,          \* the messages of the backend, in arrival order
    emitted,       \* the events the loop has passed to emit(), in order
    redeliveries,  \* visibility timeouts that have expired so far
    \* ScheduleTrigger
    sched          \* the arguments of the constructor, its outcome, the
                   \* status, the trigger of the scheduled job, the fired jobs

lifecycleVars == <<kind, status, last_error, lock, waiters, startCalls,
                   stopCalls, validateCalls, raised, calls, opsLeft>>
registryVars == <<entries, regOpsLeft, bulk, bulksLeft>>

queueVars == <<max_attempts, worker, held, sendStatus, queue, dead_letters,
               jobs, stopEvent, stopper, snap, sendCalls, delivered,
               turns, atStop>>
webhookVars == <<secret, hash_alg, callbacks, requests, cbTasks, events>>
loopVars == <<lkind, lstatus, lastErr, configOk, hasSubs, tasks, task,
              consumer, ctl, msgs, emitted, redeliveries>>

scheduleVars == <<sched>>

vars == <<lifecycleVars, registryVars, queueVars, webhookVars, loopVars, scheduleVars>>

(* ---------------------------------------------------------------------- *)
(* Event-source lifecycle: Connector.start/stop, BaseTrigger.start/stop   *)
(* ---------------------------------------------------------------------- *)
STOPPED == "stopped"
STARTING == "starting"
RUNNING == "running"
STOPPING == "stopping"
ERROR == "error"
StatusValues == {STOPPED, STARTING, RUNNING, STOPPING, ERROR}

IdleCall ==
    [op |-> None, src |-> None, pc |-> "idle", result |-> None,
     ran |-> FALSE, saw |-> None, sawStops |-> 0, no |-> 0, conc |-> {}]

\* `if self.status in {RUNNING, STARTING}: return`
StartNoopMutant(st) == st = STARTING
StartNoop(st) == st \in {RUNNING, STARTING}

\* `if self.status in {STOPPED, STOPPING}: return`
StopNoopMutant(st) == st = STOPPING
StopNoop(st) == st \in {STOPPED, STOPPING}

\* asyncio.Lock.acquire() takes the lock without suspending only when it is
\* unlocked and no earlier waiter is queued
LockFreeMutant(s) == TRUE
LockFree(s) == lock[s] = None /\ waiters[s] = <<>>

\* only Connector.start() runs validate_config() before _start()
HasValidate == kind = "connector"

\* str(exc) recorded by Connector; BaseTrigger keeps no last error
ErrorText(msg) == IF kind = "connector" THEN msg ELSE None

\* calls of other tasks that are in progress on source s with operation op
InProgress(t, op, s) ==
    {<<u, calls[u].no>> : u \in {v \in Tasks \ {t} :
        /\ calls[v].pc \in {"wait", "validate", "body"}
        /\ calls[v].op = op
        /\ calls[v].src = s}}

\* the part of start()/stop() that runs once the lock is held, up to the
\* first await inside validate_config()/_start()/_stop()
Locked(t, op, s, c) ==
    LET seen == [c EXCEPT !.saw = status[s], !.sawStops = stopCalls[s]] IN
    IF op = "start"
    THEN IF StartNoop(status[s])
         THEN /\ calls' = [calls EXCEPT ![t] =
                     [seen EXCEPT !.pc = "done", !.result = "returned"]]
              /\ lock' = [lock EXCEPT ![s] = None]
              /\ UNCHANGED <<status, startCalls, stopCalls, validateCalls>>
         ELSE /\ status' = [status EXCEPT ![s] = STARTING]
              /\ lock' = [lock EXCEPT ![s] = t]
              /\ IF HasValidate
                 THEN /\ validateCalls' = [validateCalls EXCEPT ![s] = @ + 1]
                      /\ calls' = [calls EXCEPT ![t] =
                             [seen EXCEPT !.pc = "validate", !.ran = TRUE]]
                      /\ UNCHANGED startCalls
                 ELSE /\ startCalls' = [startCalls EXCEPT ![s] = @ + 1]
                      /\ calls' = [calls EXCEPT ![t] =
                             [seen EXCEPT !.pc = "body", !.ran = TRUE]]
                      /\ UNCHANGED validateCalls
              /\ UNCHANGED stopCalls
    ELSE IF StopNoop(status[s])
         THEN /\ calls' = [calls EXCEPT ![t] =
                     [seen EXCEPT !.pc = "done", !.result = "returned"]]
              /\ lock' = [lock EXCEPT ![s] = None]
              /\ UNCHANGED <<status, startCalls, stopCalls, validateCalls>>
         ELSE /\ status' = [status EXCEPT ![s] = STOPPING]
              /\ lock' = [lock EXCEPT ![s] = t]
              /\ stopCalls' = [stopCalls EXCEPT ![s] = @ + 1]
              /\ calls' = [calls EXCEPT ![t] =
                     [seen EXCEPT !.pc = "body", !.ran = TRUE]]
              /\ UNCHANGED <<startCalls, validateCalls>>

\* task t calls start() or stop() on s: `async with self._lock`
Enter(t, op, s) ==
    LET c == [IdleCall EXCEPT !.op = op, !.src = s,
                              !.no = calls[t].no + 1,
                              !.conc = InProgress(t, op, s)] IN
    IF LockFree(s)
    THEN /\ Locked(t, op, s, c)
         /\ UNCHANGED <<waiters, last_error, raised>>
    ELSE /\ calls' = [calls EXCEPT ![t] = [c EXCEPT !.pc = "wait"]]
         /\ waiters' = [waiters EXCEPT ![s] = Append(@, t)]
         /\ UNCHANGED <<status, last_error, lock, startCalls, stopCalls,
                        validateCalls, raised>>

\* a client task calls Connector.start() / BaseTrigger.start()
Start(t, s) ==
    /\ t \in Clients
    /\ calls[t].pc = "idle"
    /\ opsLeft[t] > 0
    /\ opsLeft' = [opsLeft EXCEPT ![t] = @ - 1]
    /\ Enter(t, "start", s)
    /\ UNCHANGED <<kind, registryVars, queueVars, webhookVars, loopVars, scheduleVars>>

\* a client task calls Connector.stop() / BaseTrigger.stop()
Stop(t, s) ==
    /\ t \in Clients
    /\ calls[t].pc = "idle"
    /\ opsLeft[t] > 0
    /\ opsLeft' = [opsLeft EXCEPT ![t] = @ - 1]
    /\ Enter(t, "stop", s)
    /\ UNCHANGED <<kind, registryVars, queueVars, webhookVars, loopVars, scheduleVars>>

\* the lock is released and the first waiter resumes inside `async with`
LockGranted(t) ==
    LET s == calls[t].src IN
    /\ calls[t].pc = "wait"
    /\ lock[s] = None
    /\ waiters[s] # <<>>
    /\ Head(waiters[s]) = t
    /\ waiters' = [waiters EXCEPT ![s] = Tail(@)]
    /\ Locked(t, calls[t].op, s, calls[t])
    /\ UNCHANGED <<kind, last_error, raised, opsLeft, registryVars, queueVars, webhookVars, loopVars, scheduleVars>>

\* the except branch of start()/stop(): status ERROR, error recorded, re-raised
FailMutant(t, s, msg) ==
    /\ status' = [status EXCEPT ![s] = ERROR]
    /\ last_error' = [last_error EXCEPT ![s] = ErrorText(msg)]
    /\ lock' = lock
    /\ raised' = [raised EXCEPT ![s] = @ + 1]
    /\ calls' = [calls EXCEPT ![t].pc = "done", ![t].result = "raised"]
Fail(t, s, msg) ==
    /\ status' = [status EXCEPT ![s] = ERROR]
    /\ last_error' = [last_error EXCEPT ![s] = ErrorText(msg)]
    /\ lock' = [lock EXCEPT ![s] = None]
    /\ raised' = [raised EXCEPT ![s] = @ + 1]
    /\ calls' = [calls EXCEPT ![t].pc = "done", ![t].result = "raised"]

\* validate_config() returns and start() goes on to invoke _start()
ValidateOk(t) ==
    LET s == calls[t].src IN
    /\ calls[t].pc = "validate"
    /\ startCalls' = [startCalls EXCEPT ![s] = @ + 1]
    /\ calls' = [calls EXCEPT ![t].pc = "body"]
    /\ UNCHANGED <<kind, status, last_error, lock, waiters, stopCalls,
                   validateCalls, raised, opsLeft, registryVars, queueVars, webhookVars, loopVars, scheduleVars>>

\* validate_config() raises: _start() is not invoked
ValidateRaise(t) ==
    LET s == calls[t].src IN
    /\ calls[t].pc = "validate"
    /\ Fail(t, s, "invalid config")
    /\ UNCHANGED <<kind, waiters, startCalls, stopCalls, validateCalls,
                   opsLeft, registryVars, queueVars, webhookVars, loopVars, scheduleVars>>

\* _start() / _stop() returns: status RUNNING / STOPPED, error cleared
BodyOkMutant(t) ==
    LET s == calls[t].src IN
    /\ calls[t].pc = "body"
    /\ status' = [status EXCEPT ![s] =
           IF calls[t].op = "start" THEN RUNNING ELSE STOPPED]
    /\ lock' = [lock EXCEPT ![s] = None]
    /\ calls' = [calls EXCEPT ![t].pc = "done", ![t].result = "returned"]
    /\ UNCHANGED <<kind, waiters, startCalls, stopCalls, validateCalls,
                   last_error, raised, opsLeft, registryVars, queueVars,
                   webhookVars, loopVars, scheduleVars>>
BodyOk(t) ==
    LET s == calls[t].src IN
    /\ calls[t].pc = "body"
    /\ status' = [status EXCEPT ![s] =
           IF calls[t].op = "start" THEN RUNNING ELSE STOPPED]
    /\ last_error' = [last_error EXCEPT ![s] = None]
    /\ lock' = [lock EXCEPT ![s] = None]
    /\ calls' = [calls EXCEPT ![t].pc = "done", ![t].result = "returned"]
    /\ UNCHANGED <<kind, waiters, startCalls, stopCalls, validateCalls,
                   raised, opsLeft, registryVars, queueVars, webhookVars, loopVars, scheduleVars>>

\* _start() / _stop() raises
BodyRaise(t) ==
    LET s == calls[t].src IN
    /\ calls[t].pc = "body"
    /\ Fail(t, s, IF calls[t].op = "start" THEN "start failed" ELSE "stop failed")
    /\ UNCHANGED <<kind, waiters, startCalls, stopCalls, validateCalls,
                   opsLeft, registryVars, queueVars, webhookVars, loopVars, scheduleVars>>

\* the task awaiting start()/stop() is cancelled: CancelledError is raised
\* at the await the call is suspended in; it is no Exception, so the except
\* branch is skipped, and `async with` releases the lock if it was taken
Cancel(t) ==
    LET s == calls[t].src IN
    /\ t \in Clients
    /\ calls[t].pc \in {"wait", "validate", "body"}
    /\ IF calls[t].pc = "wait"
       THEN /\ waiters' = [waiters EXCEPT ![s] =
                              SelectSeq(@, LAMBDA u : u # t)]
            /\ UNCHANGED lock
       ELSE /\ lock' = [lock EXCEPT ![s] = None]
            /\ UNCHANGED waiters
    /\ calls' = [calls EXCEPT ![t].pc = "done", ![t].result = "cancelled"]
    /\ UNCHANGED <<kind, status, last_error, startCalls, stopCalls,
                   validateCalls, raised, opsLeft, registryVars, queueVars,
                   webhookVars, loopVars, scheduleVars>>

\* the caller of start()/stop() has its result and goes on
Return(t) ==
    /\ t \in Clients
    /\ calls[t].pc = "done"
    /\ calls' = [calls EXCEPT ![t] = [IdleCall EXCEPT !.no = calls[t].no]]
    /\ UNCHANGED <<kind, status, last_error, lock, waiters, startCalls,
                   stopCalls, validateCalls, raised, opsLeft, registryVars, queueVars, webhookVars, loopVars, scheduleVars>>

(* ---------------------------------------------------------------------- *)
(* Registry: TriggerRegistry / ConnectorRegistry                          *)
(* ---------------------------------------------------------------------- *)
Registered == {entries[i] : i \in DOMAIN entries} \ {Hole}
Used == Cardinality(Registered)

IdleBulk == [op |-> None, pos |-> 1, used |-> 0, len |-> 0,
             last |-> None, result |-> None]

\* register(): the value under an id already present is overwritten in
\* place (with a warning), a new id is appended to the dict
RegisterMutant(s) ==
    /\ regOpsLeft > 0
    /\ regOpsLeft' = regOpsLeft - 1
    /\ entries' = IF s \in Registered THEN entries ELSE Append(entries, s)
    /\ UNCHANGED <<lifecycleVars, bulk, bulksLeft, queueVars, webhookVars, loopVars, scheduleVars>>
Register(s) ==
    /\ regOpsLeft > 0
    /\ regOpsLeft' = regOpsLeft - 1
    /\ entries' = IF \E o \in Registered : IdOf(o) = IdOf(s)
                  THEN [i \in DOMAIN entries |->
                           IF IdOf(entries[i]) = IdOf(s) THEN s ELSE entries[i]]
                  ELSE Append(entries, s)
    /\ UNCHANGED <<lifecycleVars, bulk, bulksLeft, queueVars, webhookVars, loopVars, scheduleVars>>

\* unregister(): dict.pop(id, None); the entry slot of a removed id stays
\* behind as a dummy
UnregisterMutant(id) ==
    /\ regOpsLeft > 0
    /\ regOpsLeft' = regOpsLeft - 1
    /\ entries' = entries
    /\ UNCHANGED <<lifecycleVars, bulk, bulksLeft, queueVars, webhookVars, loopVars, scheduleVars>>
Unregister(id) ==
    /\ regOpsLeft > 0
    /\ regOpsLeft' = regOpsLeft - 1
    /\ entries' = [i \in DOMAIN entries |->
                      IF IdOf(entries[i]) = id THEN Hole ELSE entries[i]]
    /\ UNCHANGED <<lifecycleVars, bulk, bulksLeft, queueVars, webhookVars, loopVars, scheduleVars>>

\* TriggerRegistry.clear(); ConnectorRegistry has no clear()
ClearMutant ==
    /\ kind = "trigger"
    /\ regOpsLeft > 0
    /\ regOpsLeft' = regOpsLeft - 1
    /\ entries' = <<>>
    /\ status' = [s \in Objects |->
                      IF s \in Registered /\ lock[s] = None
                      THEN STOPPED ELSE status[s]]
    /\ UNCHANGED <<kind, last_error, lock, waiters, startCalls, stopCalls,
                   validateCalls, raised, calls, opsLeft, bulk, bulksLeft,
                   queueVars, webhookVars, loopVars, scheduleVars>>
Clear ==
    /\ kind = "trigger"
    /\ regOpsLeft > 0
    /\ regOpsLeft' = regOpsLeft - 1
    /\ entries' = <<>>
    /\ UNCHANGED <<lifecycleVars, bulk, bulksLeft, queueVars, webhookVars, loopVars, scheduleVars>>

\* get(): the source stored under the id, or None
Get(id) ==
    LET hit == {i \in DOMAIN entries : entries[i] # Hole /\ IdOf(entries[i]) = id} IN
    IF hit = {} THEN Nothing ELSE Some(entries[CHOOSE i \in hit : TRUE])

\* list_all(): list(dict.values()), in insertion order
ListAll == SelectSeq(entries, LAMBDA x : x # Hole)

\* get_stats(): one count per status that occurs, plus "total"
GetStatsMutant ==
    [k \in {status[s] : s \in Registered} \cup {"total"} |->
        IF k = "total" THEN Len(entries)
        ELSE Cardinality({s \in Registered : status[s] = k})]
GetStats ==
    [k \in {status[s] : s \in Registered} \cup {"total"} |->
        IF k = "total" THEN Used
        ELSE Cardinality({s \in Registered : status[s] = k})]

\* TriggerRegistry.start_all/stop_all skip a source already in the target
\* status; ConnectorRegistry calls start()/stop() on every source
SkipInBulkMutant(st, target) == kind = "trigger" /\ st # STOPPED
SkipInBulk(st, target) == kind = "trigger" /\ st = target

BulkTarget(op) == IF op = "start_all" THEN RUNNING ELSE STOPPED
BulkCall(op) == IF op = "start_all" THEN "start" ELSE "stop"

\* `for x in dict.values()`: the next entry the loop body acts on, from
\* iterator position p with n items still expected
RECURSIVE Scan(_, _, _)
Scan(p, n, op) ==
    IF p > Len(entries) THEN [out |-> "stop"]
    ELSE IF entries[p] = Hole THEN Scan(p + 1, n, op)
    ELSE IF n = 0 THEN [out |-> "changed"]
    ELSE IF SkipInBulk(status[entries[p]], BulkTarget(op))
         THEN Scan(p + 1, n - 1, op)
    ELSE [out |-> "item", src |-> entries[p], pos |-> p + 1, len |-> n - 1]

\* the bulk loop ends: normally, with the error of a source's start()/stop(),
\* or with the RuntimeError of a dict that changed during iteration
BulkEnd(b, res) ==
    /\ bulk' = [IdleBulk EXCEPT !.last = b.op, !.result = res]
    /\ calls' = [calls EXCEPT ![BulkTask] =
                    [IdleCall EXCEPT !.no = calls[BulkTask].no]]
    /\ UNCHANGED <<status, last_error, lock, waiters, startCalls, stopCalls,
                   validateCalls, raised>>

\* the loop of start_all()/stop_all() runs from iterator state b up to its
\* next await
BulkLoop(b) ==
    IF b.used # Used
    THEN BulkEnd(b, "runtime_error")
    ELSE LET r == Scan(b.pos, b.len, b.op) IN
         CASE r.out = "stop" -> BulkEnd(b, "returned")
           [] r.out = "changed" -> BulkEnd(b, "runtime_error")
           [] r.out = "item" ->
                /\ bulk' = [b EXCEPT !.pos = r.pos, !.len = r.len]
                /\ Enter(BulkTask, BulkCall(b.op), r.src)

\* start_all() is called
StartAll ==
    /\ bulk.op = None
    /\ bulksLeft > 0
    /\ bulksLeft' = bulksLeft - 1
    /\ BulkLoop([bulk EXCEPT !.op = "start_all", !.used = Used,
                             !.len = Used])
    /\ UNCHANGED <<kind, opsLeft, entries, regOpsLeft, queueVars, webhookVars, loopVars, scheduleVars>>

\* stop_all() is called
StopAll ==
    /\ bulk.op = None
    /\ bulksLeft > 0
    /\ bulksLeft' = bulksLeft - 1
    /\ BulkLoop([bulk EXCEPT !.op = "stop_all", !.used = Used,
                             !.len = Used])
    /\ UNCHANGED <<kind, opsLeft, entries, regOpsLeft, queueVars, webhookVars, loopVars, scheduleVars>>

\* the awaited start()/stop() of the bulk loop has finished: its error
\* leaves the loop, otherwise the loop goes on with the next source
BulkResume ==
    /\ bulk.op # None
    /\ calls[BulkTask].pc = "done"
    /\ IF calls[BulkTask].result = "raised"
       THEN BulkEnd(bulk, "source_error")
       ELSE BulkLoop(bulk)
    /\ UNCHANGED <<kind, opsLeft, entries, regOpsLeft, bulksLeft, queueVars,
                   webhookVars, loopVars, scheduleVars>>

(* ---------------------------------------------------------------------- *)
(* Outbound retry queue: OutboundRetryQueueService                        *)
(* ---------------------------------------------------------------------- *)
\* strings are sequences of characters
Str_sent_ok == <<"s", "e", "n", "t", ":", "o", "k">>
Str_sent == <<"s", "e", "n", "t">>
Str_failed_boom == <<"f", "a", "i", "l", "e", "d", ":", "b", "o", "o", "m">>

\* the status strings a delivery function returns
SendResults == {Str_sent_ok, Str_sent, Str_failed_boom}

\* str.startswith
StartsWith(str, prefix) ==
    /\ Len(str) >= Len(prefix)
    /\ SubSeq(str, 1, Len(prefix)) = prefix

\* `status.startswith("sent:")`
IsSentMutant(st) == FALSE
IsSent(st) == StartsWith(st, <<"s", "e", "n", "t", ":">>)

\* `self._max_attempts = max(max_attempts, 1)`
MaxAttemptsOfMutant(cfg) == cfg
MaxAttemptsOf(cfg) == IF cfg > 1 THEN cfg ELSE 1

\* `if job.attempts >= job.max_attempts`
ExhaustedMutant(job) == job.attempts > job.max_attempts
Exhausted(job) == job.attempts >= job.max_attempts

\* `self._queue.append(job)` after the backoff
RequeuedMutant(q, j) == q
RequeuedFirstMutant(q, j) == <<j>> \o q
Requeued(q, j) == Append(q, j)

\* OutboundRetryJob.attempts of a new job
InitialAttempts == 0

\* the history of a job that is not waiting for another attempt
NoTurn == [ahead |-> <<>>, since |-> <<>>]

\* __init__
QueueConstructed(cfg, worker_enabled) ==
    /\ max_attempts = MaxAttemptsOf(cfg)
    /\ worker = IF worker_enabled THEN "check" ELSE "none"
    /\ held = 0
    /\ sendStatus = <<>>
    /\ queue = <<>>
    /\ dead_letters = <<>>
    /\ jobs = <<>>
    /\ stopEvent = FALSE
    /\ stopper = "idle"
    /\ snap = <<>>
    /\ sendCalls = <<>>
    /\ delivered = {}
    /\ turns = <<>>
    /\ atStop = <<>>

\* enqueue(): a new job is appended to the FIFO under the lock
Enqueue ==
    /\ Len(jobs) < MaxJobs
    /\ jobs' = Append(jobs, [attempts |-> InitialAttempts,
                             max_attempts |-> max_attempts,
                             last_error |-> Nothing])
    /\ sendCalls' = Append(sendCalls, 0)
    /\ queue' = Append(queue, Len(jobs) + 1)
    /\ turns' = Append(turns, NoTurn)
    /\ UNCHANGED <<max_attempts, worker, held, sendStatus, dead_letters,
                   stopEvent, stopper, snap, delivered>>
    /\ UNCHANGED <<atStop, lifecycleVars, registryVars, webhookVars, loopVars, scheduleVars>>

\* snapshot(): queue depth, dead-letter count and the dead letters
Snapshot ==
    /\ snap' = <<[queued |-> Len(queue),
                  dead_lettered |-> Len(dead_letters),
                  dead_letters |-> dead_letters]>>
    /\ snap' # snap
    /\ UNCHANGED <<max_attempts, worker, held, sendStatus, queue,
                   dead_letters, jobs, stopEvent, stopper, sendCalls,
                   delivered>>
    /\ UNCHANGED <<turns, atStop, lifecycleVars, registryVars, webhookVars, loopVars, scheduleVars>>

\* _loop: `while not self._stop.is_set()`
WorkerCheckMutant ==
    /\ worker = "check"
    /\ worker' = "pop"
    /\ UNCHANGED <<max_attempts, held, sendStatus, queue, dead_letters, jobs,
                   stopEvent, stopper, snap, sendCalls, delivered>>
    /\ UNCHANGED <<turns, atStop, lifecycleVars, registryVars, webhookVars, loopVars, scheduleVars>>
WorkerCheck ==
    /\ worker = "check"
    /\ worker' = IF stopEvent THEN "exited" ELSE "pop"
    /\ UNCHANGED <<max_attempts, held, sendStatus, queue, dead_letters, jobs,
                   stopEvent, stopper, snap, sendCalls, delivered>>
    /\ UNCHANGED <<turns, atStop, lifecycleVars, registryVars, webhookVars, loopVars, scheduleVars>>

\* _loop: the head job is popped under the lock, if there is one
WorkerPopMutant ==
    /\ worker = "pop"
    /\ IF queue # <<>>
       THEN /\ held' = Head(queue)
            /\ worker' = "send"
            /\ UNCHANGED queue
       ELSE /\ worker' = "sleep"
            /\ UNCHANGED <<held, queue>>
    /\ UNCHANGED <<max_attempts, sendStatus, dead_letters, jobs, stopEvent,
                   stopper, snap, sendCalls, delivered>>
    /\ UNCHANGED <<turns, atStop, lifecycleVars, registryVars, webhookVars, loopVars, scheduleVars>>
WorkerPop ==
    /\ worker = "pop"
    /\ IF queue # <<>>
       THEN /\ held' = Head(queue)
            /\ queue' = Tail(queue)
            /\ worker' = "send"
       ELSE /\ worker' = "sleep"
            /\ UNCHANGED <<held, queue>>
    /\ UNCHANGED <<max_attempts, sendStatus, dead_letters, jobs, stopEvent,
                   stopper, snap, sendCalls, delivered>>
    /\ UNCHANGED <<turns, atStop, lifecycleVars, registryVars, webhookVars, loopVars, scheduleVars>>

\* _loop: the idle sleep is over
WorkerWake ==
    /\ worker = "sleep"
    /\ worker' = "check"
    /\ UNCHANGED <<max_attempts, held, sendStatus, queue, dead_letters, jobs,
                   stopEvent, stopper, snap, sendCalls, delivered>>
    /\ UNCHANGED <<turns, atStop, lifecycleVars, registryVars, webhookVars, loopVars, scheduleVars>>

\* _loop: send_fn is called for the held job and returns st; a "sent:" status
\* discards the job, any other is counted and recorded on the job
WorkerSend(st) ==
    /\ worker = "send"
    /\ sendCalls' = [sendCalls EXCEPT ![held] = @ + 1]
    /\ sendStatus' = st
    /\ turns' = [j \in DOMAIN turns |->
                     IF j = held THEN NoTurn
                     ELSE IF \E i \in DOMAIN queue : queue[i] = j
                     THEN [ahead |-> turns[j].ahead,
                           since |-> Append(turns[j].since, held)]
                     ELSE turns[j]]
    /\ IF IsSent(st)
       THEN /\ delivered' = delivered \cup {held}
            /\ held' = 0
            /\ worker' = "check"
            /\ UNCHANGED jobs
       ELSE /\ jobs' = [jobs EXCEPT ![held].attempts = @ + 1,
                                    ![held].last_error = Some(st)]
            /\ worker' = IF Exhausted(jobs'[held]) THEN "dead" ELSE "backoff"
            /\ UNCHANGED <<held, delivered>>
    /\ UNCHANGED <<max_attempts, queue, dead_letters, stopEvent, stopper,
                   snap>>
    /\ UNCHANGED <<atStop, lifecycleVars, registryVars, webhookVars, loopVars, scheduleVars>>

\* _loop: the exhausted job is appended to the dead letters under the lock
WorkerDeadLetter ==
    /\ worker = "dead"
    /\ dead_letters' = Append(dead_letters, held)
    /\ held' = 0
    /\ worker' = "check"
    /\ UNCHANGED <<max_attempts, sendStatus, queue, jobs, stopEvent, stopper,
                   snap, sendCalls, delivered>>
    /\ UNCHANGED <<turns, atStop, lifecycleVars, registryVars, webhookVars, loopVars, scheduleVars>>

\* _loop: `time.sleep(self._backoff_seconds)` is over
WorkerBackoff ==
    /\ worker = "backoff"
    /\ worker' = "requeue"
    /\ UNCHANGED <<max_attempts, held, sendStatus, queue, dead_letters, jobs,
                   stopEvent, stopper, snap, sendCalls, delivered>>
    /\ UNCHANGED <<turns, atStop, lifecycleVars, registryVars, webhookVars, loopVars, scheduleVars>>

\* _loop: the job goes back to the tail of the FIFO under the lock
WorkerRequeue ==
    /\ worker = "requeue"
    /\ queue' = Requeued(queue, held)
    /\ turns' = [j \in DOMAIN turns |->
                     IF j = held THEN [ahead |-> queue, since |-> <<>>]
                     ELSE turns[j]]
    /\ held' = 0
    /\ worker' = "check"
    /\ UNCHANGED <<max_attempts, sendStatus, dead_letters, jobs, stopEvent,
                   stopper, snap, sendCalls, delivered>>
    /\ UNCHANGED <<atStop, lifecycleVars, registryVars, webhookVars, loopVars, scheduleVars>>

WorkerAlive == worker \notin {"none", "exited"}

\* the send_fn calls made so far, over all jobs
RECURSIVE CallsUpTo(_)
CallsUpTo(n) == IF n = 0 THEN 0 ELSE sendCalls[n] + CallsUpTo(n - 1)
SendCallsMade == CallsUpTo(Len(sendCalls))

\* stop(): the flag is set and a live worker is joined
QueueStop ==
    /\ stopper = "idle"
    /\ stopEvent' = TRUE
    /\ stopper' = IF WorkerAlive THEN "joining" ELSE "returned"
    /\ atStop' = <<[calls |-> SendCallsMade, held |-> held]>>
    /\ UNCHANGED <<max_attempts, worker, held, sendStatus, queue,
                   dead_letters, jobs, snap, sendCalls, delivered>>
    /\ UNCHANGED <<turns, lifecycleVars, registryVars, webhookVars, loopVars, scheduleVars>>

\* stop(): join(timeout=1) returns, the worker has exited or the second is over
QueueStopJoined ==
    /\ stopper = "joining"
    /\ stopper' = "returned"
    /\ UNCHANGED <<max_attempts, worker, held, sendStatus, queue,
                   dead_letters, jobs, stopEvent, snap, sendCalls, delivered>>
    /\ UNCHANGED <<turns, atStop, lifecycleVars, registryVars, webhookVars, loopVars, scheduleVars>>

WorkerNext ==
    \/ WorkerCheck
    \/ WorkerPop
    \/ WorkerWake
    \/ \E st \in SendResults : WorkerSend(st)
    \/ WorkerDeadLetter
    \/ WorkerBackoff
    \/ WorkerRequeue

(* ---------------------------------------------------------------------- *)
(* Webhook source: WebhookConnector / WebhookTrigger                      *)
(* ---------------------------------------------------------------------- *)
WebhookId == "webhook"
HeaderName == "X-GenXAI-Signature"
OtherHeaderName == "x-genxai-signature"

Str_sha256 == <<"s", "h", "a", "2", "5", "6">>
Str_sha1 == <<"s", "h", "a", "1">>
HashAlgs == {Str_sha256, Str_sha1}

\* secrets (str) and raw bodies (bytes) of the requests
Key_s == <<"s">>
Key_k == <<"k">>
Body_1 == <<123, 125>>
RawBodies == {Nothing, Some(Body_1)}
Payloads == {"p1"}

\* str.encode(): the bytes of a string
CharCode(c) == CASE c = "s" -> 115 [] c = "k" -> 107 [] OTHER -> 63
Encode(str) == [i \in 1..Len(str) |-> CharCode(str[i])]

\* a hash function per algorithm name, as a byte-wise fold
HashSeed(alg) == IF alg = Str_sha256 THEN 32 ELSE 20
RECURSIVE Mix(_, _)
Mix(h, bytes) ==
    IF bytes = <<>> THEN h
    ELSE Mix((h * 31 + Head(bytes) + 1) % 256, Tail(bytes))
Hash(alg, bytes) == Mix(HashSeed(alg), bytes)

\* hmac.new(key, msg, alg): H((key ^ opad) || H((key ^ ipad) || msg))
Pad(key, pad) == [i \in 1..Len(key) |-> (key[i] + pad) % 256]
Hmac(key, msg, alg) ==
    Hash(alg, Pad(key, 92) \o <<Hash(alg, Pad(key, 54) \o msg)>>)

\* hexdigest()
HexDigits == <<"0", "1", "2", "3", "4", "5", "6", "7", "8", "9",
               "a", "b", "c", "d", "e", "f">>
HexDigest(n) == <<HexDigits[(n \div 16) + 1], HexDigits[(n % 16) + 1]>>

\* `expected = f"{self.hash_alg}={digest}"`
Expected(sec, body, alg) ==
    alg \o <<"=">> \o HexDigest(Hmac(Encode(sec), body, alg))

\* Python truth value of an optional string
Truthy(x) == x # Nothing /\ x # Some(<<>>)

\* validate_signature()
ValidateSignatureMutant(sec, alg, body, signature) ==
    IF ~Truthy(sec) THEN TRUE
    ELSE IF ~Truthy(signature) THEN TRUE
    ELSE Expected(sec[1], body, alg) = signature[1]
ValidateSignature(sec, alg, body, signature) ==
    IF ~Truthy(sec) THEN TRUE
    ELSE IF ~Truthy(signature) THEN FALSE
    ELSE Expected(sec[1], body, alg) = signature[1]

\* `headers = headers or {}` and `headers.get(self.header_name)`
\* a header mapping is a set of <<name, value>> pairs with distinct names
HeadersOrEmptyMutant(h) == {}
HeadersOrEmpty(h) == IF h = Nothing THEN {} ELSE h[1]
HeaderGet(h, name) ==
    IF \E p \in h : p[1] = name
    THEN Some((CHOOSE p \in h : p[1] = name)[2])
    ELSE Nothing

\* `if self.secret and raw_body is not None` guards the signature check
Rejects(sec, alg, raw_body, headers) ==
    /\ Truthy(sec)
    /\ raw_body # Nothing
    /\ ~ValidateSignature(sec, alg, raw_body[1],
                          HeaderGet(HeadersOrEmpty(headers), HeaderName))

\* __init__ of the webhook source
WebhookConstructed(sec, alg) ==
    /\ secret = sec
    /\ hash_alg = alg
    /\ callbacks = <<>>
    /\ requests = <<>>
    /\ cbTasks = <<>>
    /\ events = <<>>

\* on_event(): a subscriber is appended; it either completes or raises when
\* it is called
OnEventMutant(behaviour) ==
    /\ Len(callbacks) < MaxSubs
    /\ callbacks' = Append(callbacks, behaviour)
    /\ cbTasks' = cbTasks \o
           [n \in 1..Cardinality({r \in DOMAIN requests : requests[r].pc = "gather"}) |->
               [req |-> CHOOSE r \in DOMAIN requests :
                            /\ requests[r].pc = "gather"
                            /\ Cardinality({q \in 1..r : requests[q].pc = "gather"}) = n,
                sub |-> Len(callbacks) + 1, st |-> "pending"]]
    /\ UNCHANGED <<secret, hash_alg, requests, events>>
    /\ UNCHANGED <<lifecycleVars, registryVars, queueVars, loopVars, scheduleVars>>
OnEvent(behaviour) ==
    /\ Len(callbacks) < MaxSubs
    /\ callbacks' = Append(callbacks, behaviour)
    /\ UNCHANGED <<secret, hash_alg, requests, cbTasks, events>>
    /\ UNCHANGED <<lifecycleVars, registryVars, queueVars, loopVars, scheduleVars>>

\* handle_request() up to its first await: the signature check, the rejected
\* result, or emit() constructing the event and gathering the callbacks
HandleRequest(payload, raw_body, headers) ==
    LET r == Len(requests) + 1
        req == [payload |-> payload, raw_body |-> raw_body,
                headers |-> headers, pc |-> "gather", response |-> None,
                subs |-> Len(callbacks), late |-> FALSE]
    IN
    /\ IF Rejects(secret, hash_alg, raw_body, headers)
       THEN /\ requests' = Append(requests,
                  [req EXCEPT !.pc = "returned",
                              !.response = [status |-> "rejected",
                                            reason |-> "invalid signature",
                                            id |-> None]])
            /\ UNCHANGED <<events, cbTasks>>
       ELSE /\ events' = Append(events,
                  [req |-> r, source_id |-> WebhookId, payload |-> payload,
                   metadata |-> [headers |-> HeadersOrEmpty(headers)]])
            /\ IF callbacks = <<>>
               THEN /\ requests' = Append(requests,
                          [req EXCEPT !.pc = "returned",
                                      !.response = [status |-> "accepted",
                                                    reason |-> None,
                                                    id |-> WebhookId]])
                    /\ UNCHANGED cbTasks
               ELSE /\ requests' = Append(requests, req)
                    /\ cbTasks' = cbTasks \o
                          [i \in 1..Len(callbacks) |->
                              [req |-> r, sub |-> i, st |-> "pending"]]
    /\ UNCHANGED <<secret, hash_alg, callbacks>>
    /\ UNCHANGED <<lifecycleVars, registryVars, queueVars, loopVars, scheduleVars>>

\* a subscriber callback runs to its end: it completes or raises (`late`
\* notes that emit() had already returned to its caller by then)
CallbackFinish(i) ==
    /\ i \in DOMAIN cbTasks
    /\ cbTasks[i].st = "pending"
    /\ cbTasks' = [cbTasks EXCEPT ![i].st =
           IF callbacks[cbTasks[i].sub] = "ok" THEN "done" ELSE "raised"]
    /\ requests' = [requests EXCEPT ![cbTasks[i].req].late =
           @ \/ requests[cbTasks[i].req].pc # "gather"]
    /\ UNCHANGED <<secret, hash_alg, callbacks, events>>
    /\ UNCHANGED <<lifecycleVars, registryVars, queueVars, loopVars, scheduleVars>>

TasksOf(r) == {i \in DOMAIN cbTasks : cbTasks[i].req = r}

\* `await asyncio.gather(...)` resumes: with the first exception of a
\* callback as soon as there is one, with the results once all completed
GatherReturnMutant(r) ==
    /\ r \in DOMAIN requests
    /\ requests[r].pc = "gather"
    /\ \/ /\ \E i \in TasksOf(r) : cbTasks[i].st = "raised"
          /\ requests' = [requests EXCEPT ![r].pc = "raised"]
          /\ cbTasks' = [i \in DOMAIN cbTasks |->
                 IF i \in TasksOf(r) /\ cbTasks[i].st = "pending"
                 THEN [cbTasks[i] EXCEPT !.st = "cancelled"]
                 ELSE cbTasks[i]]
       \/ /\ \A i \in TasksOf(r) : cbTasks[i].st = "done"
          /\ requests' = [requests EXCEPT ![r].pc = "returned",
                 ![r].response = [status |-> "accepted", reason |-> None,
                                  id |-> WebhookId]]
          /\ UNCHANGED cbTasks
    /\ UNCHANGED <<secret, hash_alg, callbacks, events>>
    /\ UNCHANGED <<lifecycleVars, registryVars, queueVars, loopVars, scheduleVars>>
GatherReturn(r) ==
    /\ r \in DOMAIN requests
    /\ requests[r].pc = "gather"
    /\ \/ /\ \E i \in TasksOf(r) : cbTasks[i].st = "raised"
          /\ requests' = [requests EXCEPT ![r].pc = "raised"]
       \/ /\ \A i \in TasksOf(r) : cbTasks[i].st = "done"
          /\ requests' = [requests EXCEPT ![r].pc = "returned",
                 ![r].response = [status |-> "accepted", reason |-> None,
                                  id |-> WebhookId]]
    /\ UNCHANGED <<secret, hash_alg, callbacks, cbTasks, events>>
    /\ UNCHANGED <<lifecycleVars, registryVars, queueVars, loopVars, scheduleVars>>

\* the header mappings of the requests: no mapping at all, or one header
\* whose value is the signature of the body, a signature under another key
\* or with another algorithm, a digest without the algorithm prefix, an empty
\* value, or the signature under another header name
HeaderKinds == {"none", "valid", "wrong_key", "wrong_alg", "bare", "empty",
                "other_name"}

\* a request without raw body comes with no mapping or with a signature of
\* the empty body
HeaderKindsOf(body) ==
    IF body = Nothing THEN {"none", "valid"} ELSE HeaderKinds

HeaderMap(k, body, alg) ==
    LET b == IF body = Nothing THEN <<>> ELSE body[1]
        otherAlg == IF alg = Str_sha256 THEN Str_sha1 ELSE Str_sha256
    IN CASE k = "none" -> Nothing
         [] k = "valid" -> Some({<<HeaderName, Expected(Key_s, b, alg)>>})
         [] k = "wrong_key" -> Some({<<HeaderName, Expected(Key_k, b, alg)>>})
         [] k = "wrong_alg" ->
                Some({<<HeaderName, Expected(Key_s, b, otherAlg)>>})
         [] k = "bare" ->
                Some({<<HeaderName, HexDigest(Hmac(Encode(Key_s), b, alg))>>})
         [] k = "empty" -> Some({<<HeaderName, <<>> >>})
         [] k = "other_name" ->
                Some({<<OtherHeaderName, Expected(Key_s, b, alg)>>})

(* ---------------------------------------------------------------------- *)
(* Polling and queue sources: KafkaConnector, SQSConnector,               *)
(* PostgresCDCConnector, QueueTrigger                                     *)
(* ---------------------------------------------------------------------- *)
LoopKinds == {"kafka", "sqs", "cdc", "queue"}

\* Python values: a mapping is a set of <<key, value>> pairs
Dict(pairs) == <<"dict", pairs>>
Str(text) == <<"str", text>>
Dict_task == Dict({<<"task", Str("custom")>>})
Str_hello == Str("hello")
Values == {Dict_task, Str_hello}

\* the Body of an SQS message and the data of a CDC row are strings: the
\* JSON text of a value, or text that is not JSON
JsonText(v) == <<"json", v>>
PlainText(text) == <<"text", text>>

\* what a producer hands to the backend of each kind of source
Produced(k, v) ==
    IF k \in {"sqs", "cdc"}
    THEN IF v[1] = "dict" THEN JsonText(v) ELSE PlainText(v[2])
    ELSE v

\* _deserialize of the SQS and CDC connectors: json.loads(body), or the
\* body itself
Deserialize(body) == IF body[1] = "json" THEN body[2] ELSE Str(body[2])

\* QueueTrigger._listen: a mapping is the payload, anything else is wrapped
WrapMutant(message) == Dict({<<"message", message>>})
Wrap(message) ==
    IF message[1] = "dict" THEN message
    ELSE Dict({<<"message", message>>})

\* the payload the loop of each kind passes to emit()
PayloadOf(k, m) ==
    CASE k = "queue" -> Wrap(m)
      [] k \in {"sqs", "cdc"} -> Deserialize(m)
      [] k = "kafka" -> m

\* __init__: status STOPPED, no task, no consumer, no subscriber
LoopConstructed(k, ok) ==
    /\ lkind = k
    /\ lstatus = STOPPED
    /\ lastErr = None
    /\ configOk = ok
    /\ hasSubs = FALSE
    /\ tasks = <<>>
    /\ task = 0
    /\ consumer = FALSE
    /\ ctl = [pc |-> "idle", left |-> MaxLoopOps, raised |-> 0]
    /\ msgs = <<>>
    /\ emitted = <<>>
    /\ redeliveries = 0

loopRest == <<lifecycleVars, registryVars, queueVars, webhookVars,
             scheduleVars>>

\* on_event(): the first subscriber is appended
LoopOnEvent ==
    /\ ~hasSubs
    /\ hasSubs' = TRUE
    /\ UNCHANGED <<lkind, lstatus, lastErr, configOk, tasks, task, consumer,
                   ctl, msgs, emitted, redeliveries, loopRest>>

\* a producer puts a message into the backend: QueueTrigger.enqueue() or
\* queue.put(), a send to the SQS queue or to the Kafka topic
Produce(v) ==
    /\ Len(msgs) < MaxMsgs
    /\ msgs' = Append(msgs, [emitOk |-> FALSE, st |-> "visible",
                             val |-> Produced(lkind, v)])
    /\ UNCHANGED <<lkind, lstatus, lastErr, configOk, hasSubs, tasks, task,
                   consumer, ctl, emitted, redeliveries, loopRest>>

\* the visibility timeout of a received SQS message expires
Redeliver(i) ==
    /\ lkind = "sqs"
    /\ redeliveries < MaxRedeliveries
    /\ i \in DOMAIN msgs
    /\ msgs[i].st = "inflight"
    /\ msgs' = [msgs EXCEPT ![i].st = "visible"]
    /\ redeliveries' = redeliveries + 1
    /\ UNCHANGED <<lkind, lstatus, lastErr, configOk, hasSubs, tasks, task,
                   consumer, ctl, emitted, loopRest>>

\* asyncio.create_task(self._poll_loop()): the new task is suspended at its
\* first await, the wait for messages
NewTask == [pc |-> "get", cancel |-> FALSE, cur |-> 0, rest |-> <<>>]

\* `self._last_error = ...`: only the connectors keep a last error
LoopErrorText(msg) == IF lkind = "queue" THEN None ELSE msg

\* start() ends in its except branch
LoopStartFails(msg) ==
    /\ lstatus' = ERROR
    /\ lastErr' = LoopErrorText(msg)
    /\ ctl' = [ctl EXCEPT !.pc = "idle", !.left = ctl.left - 1,
                          !.raised = @ + 1]

\* start() of the source, up to its first await or its end
LoopStart ==
    /\ ctl.pc = "idle"
    /\ ctl.left > 0
    /\ IF StartNoop(lstatus)
       THEN /\ ctl' = [ctl EXCEPT !.left = @ - 1]
            /\ UNCHANGED <<lstatus, lastErr, tasks, task, consumer>>
       ELSE IF lkind # "queue" /\ ~configOk
       THEN /\ LoopStartFails("invalid config")
            /\ UNCHANGED <<tasks, task, consumer>>
       ELSE IF lkind \in {"kafka", "cdc"}
       THEN /\ lstatus' = STARTING
            /\ consumer' = (lkind = "kafka" \/ consumer)
            /\ ctl' = [ctl EXCEPT !.pc = "consumer_start", !.left = @ - 1]
            /\ UNCHANGED <<lastErr, tasks, task>>
       ELSE IF lkind = "slack"
       THEN /\ consumer' = TRUE
            /\ lstatus' = RUNNING
            /\ lastErr' = None
            /\ ctl' = [ctl EXCEPT !.left = @ - 1]
            /\ UNCHANGED <<tasks, task>>
       ELSE /\ tasks' = Append(tasks, NewTask)
            /\ task' = Len(tasks) + 1
            /\ lstatus' = RUNNING
            /\ lastErr' = None
            /\ ctl' = [ctl EXCEPT !.left = @ - 1]
            /\ UNCHANGED consumer
    /\ UNCHANGED <<lkind, configOk, hasSubs, msgs, emitted, redeliveries,
                   loopRest>>

\* _start of the Kafka and CDC connectors: `await self._consumer.start()`,
\* or `await asyncpg.connect(...)` and `await self._ensure_slot()`, return
\* and the consume loop is created
ConsumerStarted ==
    /\ ctl.pc = "consumer_start"
    /\ tasks' = Append(tasks, NewTask)
    /\ task' = Len(tasks) + 1
    /\ consumer' = TRUE
    /\ lstatus' = RUNNING
    /\ lastErr' = None
    /\ ctl' = [ctl EXCEPT !.pc = "idle"]
    /\ UNCHANGED <<lkind, configOk, hasSubs, msgs, emitted,
                   redeliveries, loopRest>>

\* _start of the Kafka and CDC connectors raises: in consumer.start(), in
\* connect() (no connection is kept) or in _ensure_slot() (the connection
\* is kept)
ConsumerStartRaise(connected) ==
    /\ ctl.pc = "consumer_start"
    /\ connected => lkind = "cdc" /\ ~consumer
    /\ consumer' = (consumer \/ connected)
    /\ lstatus' = ERROR
    /\ lastErr' = LoopErrorText("start failed")
    /\ ctl' = [ctl EXCEPT !.pc = "idle", !.raised = @ + 1]
    /\ UNCHANGED <<lkind, configOk, hasSubs, tasks, task, msgs,
                   emitted, redeliveries, loopRest>>

\* `await asyncio.gather(self._task, return_exceptions=True)` / `await
\* self._task` resumes once the task is done
JoinableMutant(k) == TRUE
Joinable(k) == tasks[k].pc = "ended"

\* stop() ends in its try branch
LoopStoppedMutant ==
    /\ lstatus' = STOPPED
    /\ lastErr' = lastErr
LoopStopped ==
    /\ lstatus' = STOPPED
    /\ lastErr' = None

\* stop() of the source, up to its first await or its end: _stop() cancels
\* the loop task and awaits it
LoopStop ==
    /\ ctl.pc = "idle"
    /\ ctl.left > 0
    /\ IF StopNoop(lstatus)
       THEN /\ ctl' = [ctl EXCEPT !.left = @ - 1]
            /\ UNCHANGED <<lstatus, lastErr, tasks>>
       ELSE IF task # 0
       THEN /\ lstatus' = STOPPING
            /\ tasks' = [tasks EXCEPT ![task].cancel = tasks[task].pc # "ended"]
            /\ ctl' = [ctl EXCEPT !.pc = "join", !.left = @ - 1]
            /\ UNCHANGED lastErr
       ELSE IF lkind \in {"kafka", "cdc", "slack"} /\ consumer
       THEN /\ lstatus' = STOPPING
            /\ ctl' = [ctl EXCEPT !.pc = "consumer_stop", !.left = @ - 1]
            /\ UNCHANGED <<lastErr, tasks>>
       ELSE /\ LoopStopped
            /\ ctl' = [ctl EXCEPT !.left = @ - 1]
            /\ UNCHANGED tasks
    /\ UNCHANGED <<lkind, configOk, hasSubs, task, consumer, msgs, emitted,
                   redeliveries, loopRest>>

\* the awaited loop task is done: `self._task = None`, then the consumer is
\* stopped (Kafka), the connection is closed (CDC) or _stop() returns
Joined ==
    /\ ctl.pc = "join"
    /\ Joinable(task)
    /\ task' = 0
    /\ IF lkind \in {"kafka", "cdc"} /\ consumer
       THEN /\ ctl' = [ctl EXCEPT !.pc = "consumer_stop"]
            /\ UNCHANGED <<lstatus, lastErr>>
       ELSE /\ LoopStopped
            /\ ctl' = [ctl EXCEPT !.pc = "idle"]
    /\ UNCHANGED <<lkind, configOk, hasSubs, tasks, consumer, msgs, emitted,
                   redeliveries, loopRest>>

\* _stop: `await self._consumer.stop()` / `await self._conn.close()` returns
ConsumerStopped ==
    /\ ctl.pc = "consumer_stop"
    /\ consumer' = FALSE
    /\ LoopStopped
    /\ ctl' = [ctl EXCEPT !.pc = "idle"]
    /\ UNCHANGED <<lkind, configOk, hasSubs, tasks, task, msgs, emitted,
                   redeliveries, loopRest>>

\* _stop: `await self._consumer.stop()` / `await self._conn.close()` raises
ConsumerStopRaise ==
    /\ ctl.pc = "consumer_stop"
    /\ lstatus' = ERROR
    /\ lastErr' = LoopErrorText("stop failed")
    /\ ctl' = [ctl EXCEPT !.pc = "idle", !.raised = @ + 1]
    /\ UNCHANGED <<lkind, configOk, hasSubs, tasks, task, consumer, msgs,
                   emitted, redeliveries, loopRest>>

\* SlackConnector._get/_post: _ensure_client() calls _start() under the lock
\* when there is no HTTP client, without going through start()
EnsureClient ==
    /\ lkind = "slack"
    /\ ctl.pc = "idle"
    /\ ~consumer
    /\ consumer' = TRUE
    /\ UNCHANGED <<lkind, lstatus, lastErr, configOk, hasSubs, tasks, task,
                   ctl, msgs, emitted, redeliveries, loopRest>>

\* SlackConnector.handle_event: the inbound payload is passed to emit()
HandleEvent(v) ==
    /\ lkind = "slack"
    /\ Len(emitted) < MaxMsgs
    /\ emitted' = Append(emitted, [msg |-> 0, payload |-> v, by |-> 0])
    /\ UNCHANGED <<lkind, lstatus, lastErr, configOk, hasSubs, tasks, task,
                   consumer, ctl, msgs, redeliveries, loopRest>>

\* the messages a receive can hand out, in arrival order
Visible == {i \in DOMAIN msgs : msgs[i].st = "visible"}
AscendingMutant(S) ==
    [n \in 1..Cardinality(S) |->
        CHOOSE x \in S : Cardinality({y \in S : y > x}) = n - 1]
RECURSIVE Ascending(_)
Ascending(S) ==
    IF S = {} THEN <<>>
    ELSE LET i == CHOOSE x \in S : \A y \in S : x <= y
         IN <<i>> \o Ascending(S \ {i})

\* where the loop goes on after `await self.emit(...)` of the last message
\* it holds: the SQS loop deletes the message when emit() returned, the CDC
\* loop sleeps one poll interval; an error of emit() leads to the `except
\* Exception` branch and its sleep
NextAfterEmitMutant(k, outcome) ==
    CASE k = "sqs" -> "delete" [] k = "cdc" -> "sleep" [] OTHER -> "get"
NextAfterEmit(k, outcome) ==
    IF outcome = "raised" THEN "sleep"
    ELSE CASE k = "sqs" -> "delete" [] k = "cdc" -> "sleep" [] OTHER -> "get"

\* the loop body from the message with index i on: emit() constructs the
\* event and, with no subscriber, returns at once (the CDC loop then goes
\* through all its rows without suspending); otherwise the loop is
\* suspended in gather. ms is the backend after the receive.
Process(k, i, others, ms) ==
    LET now == IF lkind = "cdc" /\ ~hasSubs THEN <<i>> \o others ELSE <<i>>
        pc == IF hasSubs THEN "emit" ELSE NextAfterEmit(lkind, "ok")
        keep == pc \in {"emit", "delete"}
    IN
    /\ emitted' = emitted \o
           [n \in DOMAIN now |->
               [msg |-> now[n],
                payload |-> PayloadOf(lkind, ms[now[n]].val), by |-> k]]
    /\ msgs' = [j \in DOMAIN ms |->
                  IF ~hasSubs /\ \E n \in DOMAIN now : now[n] = j
                  THEN [ms[j] EXCEPT !.emitOk = TRUE]
                  ELSE ms[j]]
    /\ tasks' = [tasks EXCEPT ![k].pc = pc,
                              ![k].cur = IF keep THEN i ELSE 0,
                              ![k].rest = IF keep THEN others ELSE <<>>]

\* the wait for messages returns: queue.get() and getone() hand out the
\* oldest message, receive_message() a batch, pg_logical_slot_get_changes
\* all changes of the slot
Receive(k, n) ==
    /\ k \in DOMAIN tasks
    /\ tasks[k].pc = "get"
    /\ ~tasks[k].cancel
    /\ n \in 1..Cardinality(Visible)
    /\ lkind \in {"kafka", "queue"} => n = 1
    /\ lkind = "cdc" => n = Cardinality(Visible)
    /\ LET batch == SubSeq(Ascending(Visible), 1, n)
           ms == [i \in DOMAIN msgs |->
                     IF \E j \in DOMAIN batch : batch[j] = i
                     THEN [msgs[i] EXCEPT !.st =
                              IF lkind = "sqs" THEN "inflight" ELSE "taken"]
                     ELSE msgs[i]]
       IN Process(k, Head(batch), Tail(batch), ms)
    /\ UNCHANGED <<lkind, lstatus, lastErr, configOk, hasSubs, task,
                   consumer, ctl, redeliveries, loopRest>>

\* a loop suspended in an await of its try block gets an error other than a
\* cancellation: it is logged and the loop sleeps
LoopErrorMutant(k, at) ==
    /\ k \in DOMAIN tasks
    /\ tasks[k].pc = at
    /\ ~tasks[k].cancel
    /\ tasks' = [tasks EXCEPT ![k].pc = "ended", ![k].cur = 0,
                              ![k].rest = <<>>]
    /\ UNCHANGED <<lkind, lstatus, lastErr, configOk, hasSubs, task,
                   consumer, ctl, msgs, emitted, redeliveries, loopRest>>
LoopError(k, at) ==
    /\ k \in DOMAIN tasks
    /\ tasks[k].pc = at
    /\ ~tasks[k].cancel
    /\ tasks' = [tasks EXCEPT ![k].pc = "sleep", ![k].cur = 0,
                              ![k].rest = <<>>]
    /\ UNCHANGED <<lkind, lstatus, lastErr, configOk, hasSubs, task,
                   consumer, ctl, msgs, emitted, redeliveries, loopRest>>

\* receive_message() / getone() raises
ReceiveRaise(k) == lkind # "queue" /\ LoopError(k, "get")

\* delete_message() raises
DeleteRaise(k) == LoopError(k, "delete")

\* `await self.emit(...)` resumes, with the callbacks' results or with the
\* error of one of them; the CDC loop goes on with the next row
EmitDone(k, outcome) ==
    LET pc == NextAfterEmit(lkind, outcome)
        keep == pc = "delete"
        ms == [j \in DOMAIN msgs |->
                  IF j = tasks[k].cur /\ outcome = "ok"
                  THEN [msgs[j] EXCEPT !.emitOk = TRUE]
                  ELSE msgs[j]]
    IN
    /\ k \in DOMAIN tasks
    /\ tasks[k].pc = "emit"
    /\ ~tasks[k].cancel
    /\ IF lkind = "cdc" /\ outcome = "ok" /\ tasks[k].rest # <<>>
       THEN Process(k, Head(tasks[k].rest), Tail(tasks[k].rest), ms)
       ELSE /\ tasks' = [tasks EXCEPT ![k].pc = pc,
                                      ![k].cur = IF keep THEN @ ELSE 0,
                                      ![k].rest = IF keep THEN @ ELSE <<>>]
            /\ msgs' = ms
            /\ UNCHANGED emitted
    /\ UNCHANGED <<lkind, lstatus, lastErr, configOk, hasSubs, task,
                   consumer, ctl, redeliveries, loopRest>>

\* delete_message() returns: the message is gone, and the loop goes on with
\* the next message of the batch or with the next receive
DeleteDone(k) ==
    /\ k \in DOMAIN tasks
    /\ tasks[k].pc = "delete"
    /\ ~tasks[k].cancel
    /\ LET ms == [msgs EXCEPT ![tasks[k].cur].st = "deleted"] IN
       IF tasks[k].rest # <<>>
       THEN Process(k, Head(tasks[k].rest), Tail(tasks[k].rest), ms)
       ELSE /\ msgs' = ms
            /\ tasks' = [tasks EXCEPT ![k].pc = "get", ![k].cur = 0]
            /\ UNCHANGED emitted
    /\ UNCHANGED <<lkind, lstatus, lastErr, configOk, hasSubs, task,
                   consumer, ctl, redeliveries, loopRest>>

\* asyncio.sleep(poll_interval), of the except branch or after a CDC
\* drain, is over
Wake(k) ==
    /\ k \in DOMAIN tasks
    /\ tasks[k].pc = "sleep"
    /\ ~tasks[k].cancel
    /\ tasks' = [tasks EXCEPT ![k].pc = "get"]
    /\ UNCHANGED <<lkind, lstatus, lastErr, configOk, hasSubs, task,
                   consumer, ctl, msgs, emitted, redeliveries, loopRest>>

\* the cancelled task is resumed with CancelledError at its await: in the
\* try block it is caught and the loop breaks, in the sleep of the except
\* branch it ends the task; a delete request that was under way may or may
\* not have reached the queue service
Cancelled(k, deleted) ==
    /\ k \in DOMAIN tasks
    /\ tasks[k].cancel
    /\ tasks[k].pc # "ended"
    /\ deleted => tasks[k].pc = "delete"
    /\ tasks' = [tasks EXCEPT ![k].pc = "ended", ![k].cancel = FALSE,
                              ![k].cur = 0, ![k].rest = <<>>]
    /\ msgs' = IF deleted
               THEN [msgs EXCEPT ![tasks[k].cur].st = "deleted"]
               ELSE msgs
    /\ UNCHANGED <<lkind, lstatus, lastErr, configOk, hasSubs, task,
                   consumer, ctl, emitted, redeliveries, loopRest>>

(* ---------------------------------------------------------------------- *)
(* Scheduled source: ScheduleTrigger                                      *)
(* ---------------------------------------------------------------------- *)
Str_cron == <<"*", " ", "*", " ", "*", " ", "*", " ", "*">>
CronInputs == {Nothing, Some(<<>>), Some(Str_cron)}
IntervalInputs == {Nothing} \cup {Some(n) : n \in -1..MaxInterval}

\* Python truth value of an optional int
IntTruthy(x) == x # Nothing /\ x # Some(0)

\* no ScheduleTrigger has been asked for
NoSchedule == [cron |-> Nothing, interval |-> Nothing, built |-> None,
               status |-> None, armed |-> None, fired |-> 0, calls |-> 0]

\* `if not self.cron and not self.interval_seconds: raise ValueError(...)`
Rejected(cron, interval) == ~Truthy(cron) /\ ~IntTruthy(interval)

\* _start: `if self.cron: CronTrigger... else: IntervalTrigger(...)`
TriggerOf(cron, interval) == IF Truthy(cron) THEN "cron" ELSE "interval"

\* ScheduleTrigger(trigger_id, cron, interval_seconds): __init__ returns or
\* raises ValueError
ScheduleConstruct ==
    /\ sched.built = "called"
    /\ sched' = IF Rejected(sched.cron, sched.interval)
                THEN [sched EXCEPT !.built = "raised"]
                ELSE [sched EXCEPT !.built = "constructed",
                                   !.status = STOPPED]
    /\ UNCHANGED <<lifecycleVars, registryVars, queueVars, webhookVars,
                   loopVars>>

\* start(): _start() has no await; the import of APScheduler or the
\* construction of its trigger may raise, otherwise the job is scheduled
ScheduleStart(ok) ==
    /\ sched.built = "constructed"
    /\ sched.calls < MaxScheduleOps
    /\ sched' = IF StartNoop(sched.status)
                THEN [sched EXCEPT !.calls = @ + 1]
                ELSE IF ok
                THEN [sched EXCEPT !.calls = @ + 1, !.status = RUNNING,
                          !.armed = TriggerOf(sched.cron, sched.interval)]
                ELSE [sched EXCEPT !.calls = @ + 1, !.status = ERROR]
    /\ UNCHANGED <<lifecycleVars, registryVars, queueVars, webhookVars,
                   loopVars>>

\* stop(): `self._scheduler.shutdown(wait=False)`
ScheduleStop ==
    /\ sched.built = "constructed"
    /\ sched.calls < MaxScheduleOps
    /\ sched' = IF StopNoop(sched.status)
                THEN [sched EXCEPT !.calls = @ + 1]
                ELSE [sched EXCEPT !.calls = @ + 1, !.status = STOPPED,
                                   !.armed = None]
    /\ UNCHANGED <<lifecycleVars, registryVars, queueVars, webhookVars,
                   loopVars>>

\* the scheduler runs the job: _emit_wrapper emits the payload
ScheduleFire ==
    /\ sched.armed # None
    /\ sched.fired < MaxFires
    /\ sched' = [sched EXCEPT !.fired = @ + 1]
    /\ UNCHANGED <<lifecycleVars, registryVars, queueVars, webhookVars,
                   loopVars>>

(* ---------------------------------------------------------------------- *)
(* Specification of the lifecycle and the registry                        *)
(* ---------------------------------------------------------------------- *)
LifecycleInit ==
    /\ kind \in {"connector", "trigger"}
    /\ status = [s \in Objects |-> STOPPED]
    /\ last_error = [s \in Objects |-> None]
    /\ lock = [s \in Objects |-> None]
    /\ waiters = [s \in Objects |-> <<>>]
    /\ startCalls = [s \in Objects |-> 0]
    /\ stopCalls = [s \in Objects |-> 0]
    /\ validateCalls = [s \in Objects |-> 0]
    /\ raised = [s \in Objects |-> 0]
    /\ calls = [t \in Tasks |-> IdleCall]
    /\ entries = <<>>
    /\ bulk = IdleBulk

\* two client tasks drive start()/stop(); the registry stays empty
Init ==
    /\ LifecycleInit
    /\ sched = NoSchedule
    /\ opsLeft = [t \in Clients |-> MaxOps]
    /\ regOpsLeft = 0
    /\ bulksLeft = 0
    /\ QueueConstructed(1, FALSE)
    /\ WebhookConstructed(Nothing, Str_sha256)
    /\ LoopConstructed("queue", TRUE)

Next ==
    \/ \E t \in Clients, s \in Sources : Start(t, s)
    \/ \E t \in Clients, s \in Sources : Stop(t, s)
    \/ \E t \in Tasks : LockGranted(t)
    \/ \E t \in Tasks : ValidateOk(t)
    \/ \E t \in Tasks : ValidateRaise(t)
    \/ \E t \in Tasks : BodyOk(t)
    \/ \E t \in Tasks : BodyRaise(t)
    \/ \E t \in Clients : Return(t)

Spec == Init /\ [][Next]_vars

\* the same client tasks, which can also be cancelled while they await
\* start()/stop()
CancelNext ==
    \/ Next
    \/ \E t \in Clients : Cancel(t)

CancelSpec == Init /\ [][CancelNext]_vars

\* the registry with its bulk task, and one client task calling start()/stop()
\* on the sources directly
RegistryInit ==
    /\ LifecycleInit
    /\ sched = NoSchedule
    /\ opsLeft = [t \in Clients |-> IF t = "u1" THEN MaxClientOps ELSE 0]
    /\ regOpsLeft = MaxRegOps
    /\ bulksLeft = MaxBulk
    /\ QueueConstructed(1, FALSE)
    /\ WebhookConstructed(Nothing, Str_sha256)
    /\ LoopConstructed("queue", TRUE)

RegistryNext ==
    \/ \E s \in Objects : Register(s)
    \/ \E s \in Objects : Unregister(IdOf(s))
    \/ Clear
    \/ StartAll
    \/ StopAll
    \/ BulkResume
    \/ \E t \in Clients, s \in Sources : Start(t, s)
    \/ \E t \in Clients, s \in Sources : Stop(t, s)
    \/ \E t \in Tasks : LockGranted(t)
    \/ \E t \in Tasks : ValidateOk(t)
    \/ \E t \in Tasks : ValidateRaise(t)
    \/ \E t \in Tasks : BodyOk(t)
    \/ \E t \in Tasks : BodyRaise(t)
    \/ \E t \in Clients : Return(t)

RegistrySpec == RegistryInit /\ [][RegistryNext]_vars

\* the registry driven through its own operations only: no caller starts
\* or stops a source directly
RegistryOpsInit ==
    /\ LifecycleInit
    /\ sched = NoSchedule
    /\ opsLeft = [t \in Clients |-> 0]
    /\ regOpsLeft = MaxRegOps
    /\ bulksLeft = MaxBulk
    /\ QueueConstructed(1, FALSE)
    /\ WebhookConstructed(Nothing, Str_sha256)
    /\ LoopConstructed("queue", TRUE)

RegistryOpsNext ==
    \/ \E s \in Objects : Register(s)
    \/ \E s \in Objects : Unregister(IdOf(s))
    \/ Clear
    \/ StartAll
    \/ StopAll
    \/ BulkResume
    \/ ValidateOk(BulkTask)
    \/ ValidateRaise(BulkTask)
    \/ BodyOk(BulkTask)
    \/ BodyRaise(BulkTask)

RegistryOpsSpec == RegistryOpsInit /\ [][RegistryOpsNext]_vars

\* the registry with several bulk calls one after the other
BulkOpsInit ==
    /\ LifecycleInit
    /\ sched = NoSchedule
    /\ opsLeft = [t \in Clients |-> 0]
    /\ regOpsLeft = MaxBulkRegOps
    /\ bulksLeft = MaxBulkOps
    /\ QueueConstructed(1, FALSE)
    /\ WebhookConstructed(Nothing, Str_sha256)
    /\ LoopConstructed("queue", TRUE)

BulkOpsSpec == BulkOpsInit /\ [][RegistryOpsNext]_vars

\* the outbound queue after construction, with stop() among its operations
QueueInit ==
    /\ \E cfg \in -1..MaxAttemptsCfg, enabled \in BOOLEAN :
           QueueConstructed(cfg, enabled)
    /\ LifecycleInit
    /\ sched = NoSchedule
    /\ opsLeft = [t \in Clients |-> 0]
    /\ regOpsLeft = 0
    /\ bulksLeft = 0
    /\ WebhookConstructed(Nothing, Str_sha256)
    /\ LoopConstructed("queue", TRUE)

QueueNext ==
    \/ Enqueue
    \/ Snapshot
    \/ WorkerCheck
    \/ WorkerPop
    \/ WorkerWake
    \/ \E st \in SendResults : WorkerSend(st)
    \/ WorkerDeadLetter
    \/ WorkerBackoff
    \/ WorkerRequeue
    \/ QueueStop
    \/ QueueStopJoined

QueueSpec == QueueInit /\ [][QueueNext]_vars

\* the outbound queue with its worker enabled and stop() never called; the
\* worker thread keeps being scheduled; snapshot() only reads the queue and
\* is exercised under QueueSpec
QueueLiveInit ==
    /\ \E cfg \in -1..MaxAttemptsCfg : QueueConstructed(cfg, TRUE)
    /\ LifecycleInit
    /\ sched = NoSchedule
    /\ opsLeft = [t \in Clients |-> 0]
    /\ regOpsLeft = 0
    /\ bulksLeft = 0
    /\ WebhookConstructed(Nothing, Str_sha256)
    /\ LoopConstructed("queue", TRUE)

QueueLiveNext ==
    \/ Enqueue
    \/ WorkerCheck
    \/ WorkerPop
    \/ WorkerWake
    \/ \E st \in SendResults : WorkerSend(st)
    \/ WorkerDeadLetter
    \/ WorkerBackoff
    \/ WorkerRequeue

QueueLiveSpec ==
    QueueLiveInit /\ [][QueueLiveNext]_vars /\ WF_vars(WorkerNext)

\* the same queue with stop() callable as well
QueueStopNext ==
    \/ QueueLiveNext
    \/ QueueStop
    \/ QueueStopJoined

QueueStopSpec ==
    QueueLiveInit /\ [][QueueStopNext]_vars /\ WF_vars(WorkerNext)

\* the webhook source with its subscribers and requests
WebhookInit ==
    /\ \E sec \in {Nothing, Some(<<>>), Some(Key_s)}, alg \in HashAlgs :
           WebhookConstructed(sec, alg)
    /\ LifecycleInit
    /\ sched = NoSchedule
    /\ opsLeft = [t \in Clients |-> 0]
    /\ regOpsLeft = 0
    /\ bulksLeft = 0
    /\ QueueConstructed(1, FALSE)
    /\ LoopConstructed("queue", TRUE)

WebhookNext ==
    \/ \E b \in {"ok", "raise"} : OnEvent(b)
    \/ \E p \in Payloads, body \in RawBodies :
           \E k \in HeaderKindsOf(body) :
               /\ Len(requests) < MaxRequests
               /\ HandleRequest(p, body, HeaderMap(k, body, hash_alg))
    \/ \E i \in DOMAIN cbTasks : CallbackFinish(i)
    \/ \E r \in DOMAIN requests : GatherReturn(r)

WebhookSpec == WebhookInit /\ [][WebhookNext]_vars

\* emit() on a source without secret, reached through handle_request(); the
\* event loop keeps running the callbacks it has scheduled
EmitInit ==
    /\ WebhookConstructed(Nothing, Str_sha256)
    /\ LifecycleInit
    /\ sched = NoSchedule
    /\ opsLeft = [t \in Clients |-> 0]
    /\ regOpsLeft = 0
    /\ bulksLeft = 0
    /\ QueueConstructed(1, FALSE)
    /\ LoopConstructed("queue", TRUE)

EmitNext ==
    \/ \E b \in {"ok", "raise"} : OnEvent(b)
    \/ \E p \in Payloads, body \in RawBodies :
           /\ Len(requests) < MaxRequests
           /\ HandleRequest(p, body, Nothing)
    \/ \E i \in DOMAIN cbTasks : CallbackFinish(i)
    \/ \E r \in DOMAIN requests : GatherReturn(r)

EmitLiveSpec ==
    EmitInit /\ [][EmitNext]_vars
             /\ WF_vars(\E i \in DOMAIN cbTasks : CallbackFinish(i))

\* callers emit through a source without secret while subscribers
\* register
FanoutNext ==
    \/ \E b \in {"ok", "raise"} : OnEvent(b)
    \/ \E p \in Payloads :
           /\ Len(requests) < MaxEmits
           /\ HandleRequest(p, Nothing, Nothing)
    \/ \E i \in DOMAIN cbTasks : CallbackFinish(i)
    \/ \E r \in DOMAIN requests : GatherReturn(r)

FanoutSpec == EmitInit /\ [][FanoutNext]_vars

\* a polling or queue source with its caller, its producers, the queue
\* service and its loop tasks
LoopInit ==
    /\ \E k \in LoopKinds :
           \E ok \in IF k = "queue" THEN {TRUE} ELSE BOOLEAN :
               LoopConstructed(k, ok)
    /\ LifecycleInit
    /\ sched = NoSchedule
    /\ kind = IF lkind = "queue" THEN "trigger" ELSE "connector"
    /\ opsLeft = [t \in Clients |-> 0]
    /\ regOpsLeft = 0
    /\ bulksLeft = 0
    /\ QueueConstructed(1, FALSE)
    /\ WebhookConstructed(Nothing, Str_sha256)

LoopNext ==
    \/ LoopOnEvent
    \/ \E v \in Values : Produce(v)
    \/ \E i \in DOMAIN msgs : Redeliver(i)
    \/ LoopStart
    \/ ConsumerStarted
    \/ \E connected \in BOOLEAN : ConsumerStartRaise(connected)
    \/ LoopStop
    \/ Joined
    \/ ConsumerStopped
    \/ ConsumerStopRaise
    \/ \E k \in DOMAIN tasks, n \in 1..MaxMsgs : Receive(k, n)
    \/ \E k \in DOMAIN tasks : ReceiveRaise(k)
    \/ \E k \in DOMAIN tasks, outcome \in {"ok", "raised"} :
           EmitDone(k, outcome)
    \/ \E k \in DOMAIN tasks : DeleteDone(k)
    \/ \E k \in DOMAIN tasks : DeleteRaise(k)
    \/ \E k \in DOMAIN tasks : Wake(k)
    \/ \E k \in DOMAIN tasks, deleted \in BOOLEAN : Cancelled(k, deleted)

LoopSpec == LoopInit /\ [][LoopNext]_vars

\* the Slack connector with its caller of start()/stop(), its API helpers
\* and its inbound events
SlackInit ==
    /\ \E ok \in BOOLEAN : LoopConstructed("slack", ok)
    /\ LifecycleInit
    /\ sched = NoSchedule
    /\ kind = "connector"
    /\ opsLeft = [t \in Clients |-> 0]
    /\ regOpsLeft = 0
    /\ bulksLeft = 0
    /\ QueueConstructed(1, FALSE)
    /\ WebhookConstructed(Nothing, Str_sha256)

SlackNext ==
    \/ LoopOnEvent
    \/ LoopStart
    \/ LoopStop
    \/ ConsumerStopped
    \/ ConsumerStopRaise
    \/ EnsureClient
    \/ \E v \in Values : HandleEvent(v)

SlackSpec == SlackInit /\ [][SlackNext]_vars

\* a scheduled source is constructed from every combination of arguments
\* and then started, stopped and fired
ScheduleInit ==
    /\ \E c \in CronInputs, n \in IntervalInputs :
           sched = [NoSchedule EXCEPT !.cron = c, !.interval = n,
                                      !.built = "called"]
    /\ kind = "trigger"
    /\ status = [s \in Objects |-> STOPPED]
    /\ last_error = [s \in Objects |-> None]
    /\ lock = [s \in Objects |-> None]
    /\ waiters = [s \in Objects |-> <<>>]
    /\ startCalls = [s \in Objects |-> 0]
    /\ stopCalls = [s \in Objects |-> 0]
    /\ validateCalls = [s \in Objects |-> 0]
    /\ raised = [s \in Objects |-> 0]
    /\ calls = [t \in Tasks |-> IdleCall]
    /\ entries = <<>>
    /\ bulk = IdleBulk
    /\ opsLeft = [t \in Clients |-> 0]
    /\ regOpsLeft = 0
    /\ bulksLeft = 0
    /\ QueueConstructed(1, FALSE)
    /\ WebhookConstructed(Nothing, Str_sha256)
    /\ LoopConstructed("queue", TRUE)

ScheduleNext ==
    \/ ScheduleConstruct
    \/ \E ok \in BOOLEAN : ScheduleStart(ok)
    \/ ScheduleStop
    \/ ScheduleFire

ScheduleSpec == ScheduleInit /\ [][ScheduleNext]_vars

(* ---------------------------------------------------------------------- *)
(* Properties of the lifecycle                                            *)
(* ---------------------------------------------------------------------- *)
\* in this step task t gets the lock of its call's source and runs the
\* status check of start()/stop()
Acquired(t) ==
    \/ calls'[t].no = calls[t].no + 1 /\ calls'[t].pc # "wait"
    \/ calls[t].pc = "wait" /\ calls'[t].pc # "wait"

\* the call of t returned at once and left the source as it was
WasNoop(t) ==
    /\ calls'[t].pc = "done"
    /\ calls'[t].result = "returned"
    /\ ~calls'[t].ran
    /\ UNCHANGED <<status, last_error, lock, startCalls, stopCalls,
                   validateCalls, raised>>

\* C1: start() is idempotent. A start() that follows a successful start()
\* with no stop() in between (the source is Running when it takes the lock)
\* returns without invoking validate_config()/_start() and without changing
\* any state; as long as no call raised and no _stop() ran, _start() has been
\* invoked at most once however many start() calls were made.
C1_StartIdempotent ==
    /\ [](\A s \in Sources :
            (raised[s] = 0 /\ stopCalls[s] = 0) =>
                /\ startCalls[s] <= 1
                /\ validateCalls[s] <= 1
                /\ (status[s] = RUNNING => startCalls[s] = 1))
    /\ [][\A t \in Tasks :
            (/\ Acquired(t)
             /\ calls'[t].op = "start"
             /\ status[calls'[t].src] = RUNNING) => WasNoop(t)]_vars

\* a second start() has returned on a source started once and never stopped
C1_Witness ==
    \E t \in Tasks :
        /\ calls[t].pc = "done"
        /\ calls[t].op = "start"
        /\ calls[t].saw = RUNNING
        /\ calls[t].result = "returned"
        /\ status[calls[t].src] = RUNNING
        /\ startCalls[calls[t].src] = 1
        /\ stopCalls[calls[t].src] = 0
        /\ raised[calls[t].src] = 0

\* C2: stop() is idempotent. A stop() on a source that is Stopped (after a
\* stop() that ended in Stopped, or never started) does not invoke _stop(),
\* raises nothing and leaves the status Stopped; a source never started has
\* had no _stop() invoked.
C2_StopIdempotent ==
    /\ [](\A s \in Sources :
            (startCalls[s] = 0 /\ validateCalls[s] = 0) =>
                (stopCalls[s] = 0 /\ status[s] = STOPPED))
    /\ [][\A t \in Tasks :
            (/\ Acquired(t)
             /\ calls'[t].op = "stop"
             /\ status[calls'[t].src] = STOPPED) =>
                (WasNoop(t) /\ status'[calls'[t].src] = STOPPED)]_vars

\* a stop() has returned on a source that an earlier stop() had left Stopped
C2_Witness ==
    \E t \in Tasks :
        /\ calls[t].pc = "done"
        /\ calls[t].op = "stop"
        /\ calls[t].saw = STOPPED
        /\ calls[t].result = "returned"
        /\ status[calls[t].src] = STOPPED
        /\ startCalls[calls[t].src] = 1
        /\ stopCalls[calls[t].src] = 1
        /\ raised[calls[t].src] = 0

\* tasks executing validate_config(), _start() or _stop() of source s
InBody(s) ==
    {t \in Tasks : calls[t].pc \in {"validate", "body"} /\ calls[t].src = s}

\* the current start() calls of t1 and t2 on one source were in progress at
\* the same time
ConcurrentStarts(t1, t2) ==
    /\ t1 # t2
    /\ calls[t1].op = "start"
    /\ calls[t2].op = "start"
    /\ calls[t1].src = calls[t2].src
    /\ calls[t1].pc # "idle"
    /\ <<t1, calls[t1].no>> \in calls[t2].conc

\* both calls executed the setup and no _stop() ran between them
BothRanSetup(t1, t2) ==
    /\ calls[t1].ran
    /\ calls[t2].ran
    /\ calls[t1].sawStops = calls[t2].sawStops

\* C3 as stated: of two concurrent start() calls on one source at most one
\* executes validate_config()/_start(), and the bodies never overlap.
C3_AtMostOneSetup ==
    /\ \A s \in Sources : Cardinality(InBody(s)) <= 1
    /\ \A t1, t2 \in Tasks :
           ConcurrentStarts(t1, t2) => ~BothRanSetup(t1, t2)

\* C3 amended: the executions of validate_config()/_start()/_stop() of one
\* source never overlap in time, and of two concurrent start() calls the one
\* that takes the lock second executes the setup only if the first call
\* failed and left the source in Error.
C3_SetupExclusive ==
    /\ \A s \in Sources : Cardinality(InBody(s)) <= 1
    /\ \A s \in Sources : lock[s] = None <=> InBody(s) = {}
    /\ \A t1, t2 \in Tasks :
           (ConcurrentStarts(t1, t2) /\ BothRanSetup(t1, t2)) =>
               /\ calls[t1].result = "raised"
               /\ calls[t2].saw = ERROR

\* two concurrent start() calls: the first failed, the second is executing
\* the setup after it
C3_Witness ==
    \E t1, t2 \in Tasks :
        /\ ConcurrentStarts(t1, t2)
        /\ BothRanSetup(t1, t2)
        /\ calls[t1].result = "raised"
        /\ calls[t2].pc \in {"validate", "body"}

(* ---------------------------------------------------------------------- *)
(* Properties of the registry                                             *)
(* ---------------------------------------------------------------------- *)
\* the first bulk run was start_all() over both sources, it has ended, and
\* nothing but that run has called start()/stop()
StartAllAloneEnded ==
    /\ bulk.op = None
    /\ bulk.last = "start_all"
    /\ bulk.result \in {"returned", "source_error"}
    /\ bulksLeft = MaxBulk - 1
    /\ Registered = Sources
    /\ \A t \in Clients : calls[t].no = 0

\* the _start() of source s raised
StartRaised(s) ==
    /\ status[s] = ERROR
    /\ kind = "connector" => last_error[s] = "start failed"

\* C4: start_all() over two sources, one of whose _start() raises, still
\* invokes _start() on the other, and get_stats() then reports one source
\* running and one in error.
C4_StartAllAttemptsAll ==
    \A f, o \in Sources :
        (/\ f # o
         /\ StartAllAloneEnded
         /\ StartRaised(f)
         /\ status[o] # ERROR) =>
            /\ startCalls[o] >= 1
            /\ GetStats = [k \in {RUNNING, ERROR, "total"} |->
                              IF k = "total" THEN 2 ELSE 1]

(* ---------------------------------------------------------------------- *)
(* Properties of the outbound retry queue                                 *)
(* ---------------------------------------------------------------------- *)
Range(f) == {f[i] : i \in DOMAIN f}
InQueue(j) == j \in Range(queue)
InDead(j) == j \in Range(dead_letters)
SentColon == <<"s", "e", "n", "t", ":">>

\* C5: a job whose deliveries all return a non-"sent:" status is passed to
\* the delivery function exactly max_attempts times: after the last of them
\* the worker holds it only to dead-letter it, it does reach the dead
\* letters, there it has attempts = max_attempts and the last returned status
\* as last_error, and the delivery function is not called for it again.
C5_DeadLetterAfterN ==
    /\ [](\A j \in DOMAIN jobs :
            /\ j \notin delivered => sendCalls[j] = jobs[j].attempts
            /\ jobs[j].attempts = max_attempts =>
                   (InDead(j) \/ (held = j /\ worker = "dead"))
            /\ InDead(j) =>
                   /\ sendCalls[j] = max_attempts
                   /\ jobs[j].attempts = max_attempts
                   /\ jobs[j].last_error # Nothing
                   /\ ~StartsWith(jobs[j].last_error[1], SentColon)
                   /\ j \notin delivered)
    /\ [][/\ (worker = "send" /\ worker' = "dead") =>
                 jobs'[held].last_error = Some(sendStatus')
          /\ \A j \in DOMAIN jobs :
                 InDead(j) => /\ sendCalls'[j] = sendCalls[j]
                              /\ jobs'[j] = jobs[j]]_vars
    /\ \A j \in 1..MaxJobs :
          []((j \in DOMAIN jobs /\ jobs[j].attempts = max_attempts) =>
                <>InDead(j))

\* a job is dead-lettered after three failed deliveries
C5_Witness ==
    \E j \in DOMAIN jobs :
        /\ InDead(j)
        /\ max_attempts = 3
        /\ sendCalls[j] = 3
        /\ jobs[j].last_error = Some(Str_failed_boom)

\* C6: a job whose first delivery returns a "sent:" status is discarded
\* after that single call: its attempts stay 0, it is neither requeued nor
\* dead-lettered, and a snapshot() taken when it was the only job reports
\* queued = 0 and dead_lettered = 0.
C6_SentIsDiscarded ==
    /\ [](\A j \in delivered :
            /\ ~InQueue(j) /\ ~InDead(j) /\ held # j
            /\ jobs[j].attempts = sendCalls[j] - 1
            /\ sendCalls[j] = 1 =>
                   (jobs[j].attempts = 0 /\ jobs[j].last_error = Nothing))
    /\ [][/\ (worker = "send" /\ worker' # "send"
                 /\ StartsWith(sendStatus', SentColon)) =>
                 /\ held \in delivered'
                 /\ UNCHANGED <<jobs, queue, dead_letters>>
          /\ (snap' # snap /\ Len(jobs) = 1 /\ delivered = {1}) =>
                 snap' = <<[queued |-> 0, dead_lettered |-> 0,
                            dead_letters |-> <<>>]>>]_vars

\* the only job was delivered by its first send and a snapshot was taken
C6_Witness ==
    /\ Len(jobs) = 1
    /\ delivered = {1}
    /\ sendCalls[1] = 1
    /\ sendStatus = Str_sent_ok
    /\ snap = <<[queued |-> 0, dead_lettered |-> 0, dead_letters |-> <<>>]>>

\* C7: every job has attempts <= max_attempts; a job waiting in the FIFO has
\* attempts < max_attempts; a dead-lettered job has attempts >= max_attempts;
\* a dead-lettered job is never in the FIFO again and stays dead-lettered.
C7_AttemptsBounded ==
    /\ [](\A j \in DOMAIN jobs :
            /\ jobs[j].attempts <= jobs[j].max_attempts
            /\ InQueue(j) => jobs[j].attempts < jobs[j].max_attempts
            /\ InDead(j) => jobs[j].attempts >= jobs[j].max_attempts
            /\ ~(InQueue(j) /\ InDead(j)))
    /\ [][\A j \in DOMAIN jobs :
            InDead(j) => (InDead(j)' /\ ~InQueue(j)' /\ held' # j)]_vars

\* one job is dead-lettered while another waits in the FIFO after a failure
C7_Witness ==
    \E j, k \in DOMAIN jobs :
        /\ InDead(j)
        /\ jobs[j].attempts >= 2
        /\ InQueue(k)
        /\ jobs[k].attempts >= 1

\* C8: with the worker enabled, scheduled fairly, and stop() never called,
\* every enqueued job is eventually delivered or dead-lettered.
C8_EventuallyHandled ==
    \A j \in 1..MaxJobs :
        [](j \in DOMAIN jobs => <>(j \in delivered \/ InDead(j)))

\* one job was delivered after a failed attempt and another was dead-lettered
C8_Witness ==
    \E j, k \in DOMAIN jobs :
        /\ j \in delivered
        /\ jobs[j].attempts >= 1
        /\ InDead(k)

\* C9: the delivery function is invoked at most max_attempts times for a job,
\* and max_attempts is at least 1.
C9_AtMostMaxAttempts ==
    /\ max_attempts >= 1
    /\ \A j \in DOMAIN jobs :
           /\ jobs[j].max_attempts = max_attempts
           /\ sendCalls[j] <= max_attempts

\* a job has had all its max_attempts >= 2 deliveries and stop() was called
C9_Witness ==
    \E j \in DOMAIN jobs :
        /\ sendCalls[j] = max_attempts
        /\ max_attempts >= 2
        /\ stopEvent

(* ---------------------------------------------------------------------- *)
(* Properties of the webhook source                                       *)
(* ---------------------------------------------------------------------- *)
\* request r went to a source with a secret and carried a raw body
SignatureChecked(r) ==
    /\ secret # Nothing
    /\ secret # Some(<<>>)
    /\ requests[r].raw_body # Nothing

\* the value of the signature header of request r, if it has one
SignatureHeader(r) ==
    HeaderGet(HeadersOrEmpty(requests[r].headers), HeaderName)

\* the header is "<hash_alg>=" followed by the hex HMAC of the raw body
SignatureMatches(r) ==
    SignatureHeader(r) =
        Some(hash_alg \o <<"=">> \o
             HexDigest(Hmac(Encode(secret[1]), requests[r].raw_body[1],
                            hash_alg)))

EventsOf(r) == {i \in DOMAIN events : events[i].req = r}

Accepted(r) ==
    /\ requests[r].pc = "returned"
    /\ requests[r].response.status = "accepted"

WasRejected(r) ==
    /\ requests[r].pc = "returned"
    /\ requests[r].response.status = "rejected"

SignatureMissingOrWrong(r) ==
    \/ SignatureHeader(r) = Nothing
    \/ requests[r].raw_body # Nothing /\ ~SignatureMatches(r)

\* C11: with a secret configured, every request whose signature header is
\* missing or does not match is rejected and emits nothing, a request
\* without raw body included.
C11_UnsignedRejected ==
    \A r \in DOMAIN requests :
        (Truthy(secret) /\ SignatureMissingOrWrong(r)) =>
            (WasRejected(r) /\ EventsOf(r) = {})

\* the header mapping handle_request passes on as metadata
HeadersGiven(r) ==
    IF requests[r].headers = Nothing THEN {} ELSE requests[r].headers[1]

\* the one event of request r carries its payload and its header mapping
OneEventOf(r) ==
    /\ Cardinality(EventsOf(r)) = 1
    /\ \A i \in EventsOf(r) :
           /\ events[i].payload = requests[r].payload
           /\ events[i].metadata = [headers |-> HeadersGiven(r)]

\* C12 as stated: without a secret every request, whatever its headers and
\* raw body, emits exactly one event carrying the payload and the header
\* mapping, and handle_request returns "accepted".
C12_NoSecretAccepts ==
    \A r \in DOMAIN requests :
        secret = Nothing =>
            /\ OneEventOf(r)
            /\ requests[r].pc # "gather" => Accepted(r)

\* C12 amended: without a secret no request is rejected; each emits exactly
\* one event carrying the payload and the header mapping, and handle_request
\* returns "accepted" unless a subscriber callback raises, in which case
\* that error leaves handle_request instead of a result.
C12_NoSecretEmits ==
    \A r \in DOMAIN requests :
        secret = Nothing =>
            /\ OneEventOf(r)
            /\ ~WasRejected(r)
            /\ requests[r].pc = "returned" => Accepted(r)
            /\ requests[r].pc = "raised" =>
                   \E i \in TasksOf(r) : cbTasks[i].st = "raised"

\* a request with a raw body and a wrong signature was accepted by a source
\* without secret after its subscribers completed
C12_Witness ==
    \E r \in DOMAIN requests :
        /\ secret = Nothing
        /\ requests[r].raw_body # Nothing
        /\ SignatureHeader(r) # Nothing
        /\ SignatureHeader(r) # Some(Expected(Key_s, requests[r].raw_body[1],
                                              hash_alg))
        /\ Accepted(r)
        /\ TasksOf(r) # {}
        /\ OneEventOf(r)

(* ---------------------------------------------------------------------- *)
(* Properties of emit()                                                   *)
(* ---------------------------------------------------------------------- *)
\* emit() was called for request r
Emitted(r) == EventsOf(r) # {}

\* emit() of request r has returned to its caller, normally or with an error
EmitReturned(r) == Emitted(r) /\ requests[r].pc \in {"returned", "raised"}

\* every subscriber registered when emit() started has a callback invocation
AllInvoked(r) ==
    {cbTasks[i].sub : i \in TasksOf(r)} = 1..requests[r].subs

\* C13: when emit() returns, normally or with an error, every callback
\* registered at the start of the emission has been invoked and has
\* completed; emit() never returns while one of its callbacks still runs.
C13_ReturnsAfterAll ==
    \A r \in DOMAIN requests :
        EmitReturned(r) =>
            /\ AllInvoked(r)
            /\ \A i \in TasksOf(r) : cbTasks[i].st # "pending"

\* C14: when a callback raises during emit(), the caller of emit() gets an
\* error and never a normal return, and every sibling callback has been
\* invoked for the same event, is never cancelled and runs to its end.
C14_SiblingsComplete ==
    /\ [](\A r \in DOMAIN requests :
            /\ Emitted(r) =>
                  /\ AllInvoked(r)
                  /\ Cardinality(EventsOf(r)) = 1
                  /\ \A i \in TasksOf(r) :
                         cbTasks[i].st \in {"pending", "done", "raised"}
            /\ (\E i \in TasksOf(r) : cbTasks[i].st = "raised") =>
                   requests[r].pc \in {"gather", "raised"})
    /\ \A r \in 1..MaxRequests :
           [] ((r \in DOMAIN requests /\ requests[r].pc = "raised") =>
                  <> (\A i \in TasksOf(r) :
                         cbTasks[i].st \in {"done", "raised"}))

\* emit() has raised the error of one callback while a sibling was still
\* running, and the sibling has completed since
C14_Witness ==
    \E r \in DOMAIN requests :
        /\ requests[r].pc = "raised"
        /\ requests[r].late
        /\ Cardinality({i \in TasksOf(r) : cbTasks[i].st = "raised"}) = 1
        /\ \E j \in TasksOf(r) : cbTasks[j].st = "done"
        /\ \A j \in TasksOf(r) : cbTasks[j].st # "pending"

(* ---------------------------------------------------------------------- *)
(* Properties of failing lifecycle calls                                  *)
(* ---------------------------------------------------------------------- *)
\* in this step the start()/stop() call of task t ends with the error of
\* validate_config(), _start() or _stop()
CallFails(t) ==
    /\ calls[t].pc \in {"validate", "body"}
    /\ calls'[t].pc = "done"
    /\ calls'[t].result = "raised"

\* C15: a failure of validate_config(), _start() or _stop() is re-raised to
\* the caller, sets the status to Error and records the error message as the
\* last error; a failing validate_config() keeps _start() from being invoked.
C15_FailureRecorded ==
    [][\A t \in Tasks :
          CallFails(t) =>
              LET s == calls[t].src IN
              /\ status'[s] = ERROR
              /\ raised'[s] = raised[s] + 1
              /\ last_error'[s] # None
              /\ calls[t].pc = "validate" => startCalls'[s] = startCalls[s]
      ]_vars

(* ---------------------------------------------------------------------- *)
(* Properties of the polling and queue sources                            *)
(* ---------------------------------------------------------------------- *)
\* in this step a loop task passes an event to emit()
LoopEmits == Len(emitted') > Len(emitted)

\* in this step stop() returns to its caller with status Stopped
StopReturns ==
    /\ lstatus # STOPPED
    /\ lstatus' = STOPPED
    /\ ctl'.pc = "idle"

AllTasksEnded == \A k \in DOMAIN tasks : tasks[k].pc = "ended"

\* C16: when stop() returns with status Stopped the background loop task has
\* terminated, and the loop emits no event once stop() has returned.
C16_StopAwaitsLoop ==
    /\ [](lstatus = STOPPED => AllTasksEnded)
    /\ [][StopReturns => AllTasksEnded']_vars
    /\ [][LoopEmits =>
            /\ lstatus = RUNNING
            /\ tasks[emitted'[Len(emitted')].by].pc # "ended"]_vars

\* stop() has returned with status Stopped after the loop had emitted an
\* event, its task is done, and a message is left in the backend unread
C16_Witness ==
    /\ lstatus = STOPPED
    /\ ctl.pc = "idle"
    /\ tasks # <<>>
    /\ AllTasksEnded
    /\ emitted # <<>>
    /\ \E i \in DOMAIN msgs : msgs[i].st = "visible"

\* in this step message i is deleted from the queue
Deletes(i) ==
    /\ i \in DOMAIN msgs
    /\ msgs[i].st # "deleted"
    /\ msgs'[i].st = "deleted"

\* C17: the SQS source deletes a message only after an emission of that
\* message has returned without error; after a failed emission or a
\* cancellation before the delete the message stays with the queue service.
C17_DeleteAfterEmit ==
    /\ [](\A i \in DOMAIN msgs : msgs[i].st = "deleted" => msgs[i].emitOk)
    /\ [][\A i \in 1..MaxMsgs :
            /\ Deletes(i) =>
                  /\ lkind = "sqs"
                  /\ msgs[i].emitOk
                  /\ \E k \in DOMAIN tasks :
                         tasks[k].pc = "delete" /\ tasks[k].cur = i
            /\ (i \in DOMAIN msgs /\ ~msgs'[i].emitOk) =>
                   msgs'[i].st \in {"visible", "inflight", "taken"}
       ]_vars

\* the emission of one message of a batch failed and left it undeleted, it
\* was handed out again, emitted and then deleted
C17_Witness ==
    /\ lkind = "sqs"
    /\ hasSubs
    /\ \E i \in DOMAIN msgs :
           /\ msgs[i].st = "deleted"
           /\ msgs[i].emitOk
           /\ Cardinality({e \in DOMAIN emitted : emitted[e].msg = i}) = 2
    /\ redeliveries > 0

\* the payload the queue source is to emit for message m
ExpectedPayload(m) ==
    IF m \in {Dict_task} THEN m ELSE <<"dict", {<<"message", m>>}>>

\* C18: the queue source emits exactly one event per dequeued message, in
\* FIFO order; a mapping is the payload as it is, any other value v is
\* emitted as {"message": v}.
C18_OneEventPerMessage ==
    lkind = "queue" =>
        /\ {i \in DOMAIN msgs : msgs[i].st = "taken"} = 1..Len(emitted)
        /\ \A e \in DOMAIN emitted :
               /\ emitted[e].msg = e
               /\ emitted[e].payload = ExpectedPayload(msgs[e].val)

\* a mapping and then "hello" were enqueued and both have been emitted
C18_Witness ==
    /\ lkind = "queue"
    /\ Len(emitted) = 2
    /\ msgs[1].val = Dict_task
    /\ msgs[2].val = Str_hello
    /\ emitted[1].payload = Dict_task
    /\ emitted[2].payload = <<"dict", {<<"message", <<"str", "hello">>>>}>>


\* C19: on an empty registry register(s) makes get(s.id) return s; a
\* following unregister(s.id) leaves list_all() empty and makes get(s.id)
\* return nothing; unregister of an id that is not registered leaves the
\* mapping as it is.
C19_RoundTrip ==
    [][\A s \in Objects :
          /\ (Registered = {} /\ Register(s)) =>
                 /\ Get(IdOf(s))' = Some(s)
                 /\ ListAll' = <<s>>
          /\ (Registered = {s} /\ Unregister(IdOf(s))) =>
                 /\ ListAll' = <<>>
                 /\ Get(IdOf(s))' = Nothing
          /\ ((\A o \in Registered : IdOf(o) # IdOf(s)) /\ Unregister(IdOf(s))) =>
                 /\ entries' = entries
                 /\ ListAll' = ListAll
                 /\ \A o \in Objects : Get(IdOf(o))' = Get(IdOf(o))
      ]_vars

\* a source was registered and unregistered again, and with one more
\* operation (an unregister of an id not registered among them) the registry
\* is empty
C19_Witness ==
    /\ entries = <<Hole>>
    /\ regOpsLeft <= MaxRegOps - 3
    /\ ListAll = <<>>
    /\ \A s \in Sources : Get(s) = Nothing

RECURSIVE SumOver(_, _)
SumOver(f, S) ==
    IF S = {} THEN 0
    ELSE LET k == CHOOSE x \in S : TRUE IN f[k] + SumOver(f, S \ {k})

\* the statuses that occur among the registered sources
OccurringStatuses == {status[entries[i]] : i \in {j \in DOMAIN entries : entries[j] # Hole}}

\* C20: in every state of the trigger registry get_stats() has one count per
\* status that occurs among the registered sources, plus "total"; the counts
\* of the statuses sum to total, and total is the number of registered
\* sources (0 for an empty registry).
C20_StatsConsistent ==
    kind = "trigger" =>
        /\ DOMAIN GetStats = OccurringStatuses \cup {"total"}
        /\ \A k \in OccurringStatuses : GetStats[k] >= 1
        /\ SumOver(GetStats, OccurringStatuses) = GetStats["total"]
        /\ GetStats["total"] = Len(ListAll)
        /\ ListAll = <<>> => GetStats = [k \in {"total"} |-> 0]

\* two sources are registered with different statuses after a bulk call has
\* ended
C20_Witness ==
    /\ kind = "trigger"
    /\ Len(ListAll) = 2
    /\ Cardinality(OccurringStatuses) = 2
    /\ bulk.last # None

\* C21: every result handle_request() returns carries the id of the source:
\* an accepted request returns {status: accepted, id}, a rejected one
\* {status: rejected, reason, id}, and the call never ends with an error.
C21_ResultCarriesId ==
    \A r \in DOMAIN requests :
        /\ requests[r].pc # "raised"
        /\ requests[r].pc = "returned" =>
               /\ requests[r].response.status \in {"accepted", "rejected"}
               /\ requests[r].response.id = WebhookId
               /\ requests[r].response.status = "rejected" =>
                      requests[r].response.reason = "invalid signature"

\* in this step the status of s changes from a to b within a call of op by
\* some task, the call being at one of the positions pcs afterwards
StatusStep(s, op, a, b, pcs) ==
    /\ status[s] = a
    /\ status'[s] = b
    /\ \E t \in Tasks :
           /\ calls'[t].op = op
           /\ calls'[t].src = s
           /\ calls'[t].pc \in pcs
           /\ calls'[t] # calls[t]

\* the transitions of the claim: start() takes Stopped to Starting and
\* Starting to Running, stop() takes Running to Stopping and Stopping to
\* Stopped, a failure takes Starting or Stopping to Error
ClaimedStep(s) ==
    \/ StatusStep(s, "start", STOPPED, STARTING, {"validate", "body"})
    \/ StatusStep(s, "start", STARTING, RUNNING, {"done"})
    \/ StatusStep(s, "start", STARTING, ERROR, {"done"})
    \/ StatusStep(s, "stop", RUNNING, STOPPING, {"body"})
    \/ StatusStep(s, "stop", STOPPING, STOPPED, {"done"})
    \/ StatusStep(s, "stop", STOPPING, ERROR, {"done"})

\* C22 as stated: the status changes only along Stopped -> Starting ->
\* Running and Running -> Stopping -> Stopped, or to Error on a failure
\* while Starting or Stopping, each inside a start()/stop() call.
C22_OnlyClaimedSteps ==
    [][\A s \in Sources : status'[s] # status[s] => ClaimedStep(s)]_vars

\* C22 (amended): the status changes only inside start()/stop(): start()
\* takes a status other than Running and Starting (Stopped, or Error after
\* a failure) to Starting and Starting to Running, stop() takes a status
\* other than Stopped and Stopping (Running, or Error) to Stopping and
\* Stopping to Stopped, a failure takes Starting or Stopping to Error;
\* Running is entered from Starting only, Stopped from Stopping only.
C22_StatusMachine ==
    [][\A s \in Sources : status'[s] # status[s] =>
          \/ ClaimedStep(s)
          \/ \E a \in StatusValues \ {RUNNING, STARTING} :
                 StatusStep(s, "start", a, STARTING, {"validate", "body"})
          \/ \E a \in StatusValues \ {STOPPED, STOPPING} :
                 StatusStep(s, "stop", a, STOPPING, {"body"})
      ]_vars

\* a source whose start failed has been started again and is Running
C22_Witness ==
    \E s \in Sources :
        /\ status[s] = RUNNING
        /\ raised[s] > 0
        /\ startCalls[s] >= 2

\* the loop task of the source is running and has not been cancelled
LoopAlive ==
    /\ task \in DOMAIN tasks
    /\ tasks[task].pc # "ended"
    /\ ~tasks[task].cancel

\* in this step the loop of task k gets an error of the fetch, of a
\* subscriber or of the delete
LoopFails(k) ==
    \/ ReceiveRaise(k)
    \/ EmitDone(k, "raised")
    \/ DeleteRaise(k)

HeldByLoop(i) ==
    \E k \in DOMAIN tasks :
        /\ tasks[k].pc = "emit"
        /\ \/ tasks[k].cur = i
           \/ \E n \in DOMAIN tasks[k].rest : tasks[k].rest[n] = i

\* C24: a message the loop has taken from its backend is never dropped: as
\* long as no emission of it has completed it is held by the loop for
\* emission or is still with the backend for redelivery.
C24_NeverDropped ==
    \A i \in DOMAIN msgs :
        ~msgs[i].emitOk =>
            \/ msgs[i].st \in {"visible", "inflight"}
            \/ HeldByLoop(i)

\* the events appended to the log in this step
NewEvents == SubSeq(emitted', Len(emitted) + 1, Len(emitted'))

\* the messages the backend hands to the loop in this step
Delivered ==
    {i \in DOMAIN msgs : msgs[i].st = "visible" /\ msgs'[i].st # "visible"}

\* the messages S come before every message of T in the order of the backend
AllBefore(S, T) == \A i \in S, j \in T : i < j

\* C25: a source emits in the order in which its backend delivers: a new
\* emission starts only when no other emission of the source is under way,
\* the events of a delivered batch follow the order of the batch with the
\* rest of the batch kept in that order, and at most one loop task emits.
C25_EmitsInDeliveryOrder ==
    /\ [](Cardinality({k \in DOMAIN tasks : tasks[k].pc \in {"emit", "delete"}}) <= 1)
    /\ [][LoopEmits =>
            LET new == NewEvents
                k == new[1].by
                ids == {new[n].msg : n \in DOMAIN new}
                left == {tasks'[k].rest[n] : n \in DOMAIN tasks'[k].rest}
                from == IF tasks[k].pc = "get" THEN Delivered
                        ELSE {tasks[k].rest[n] : n \in DOMAIN tasks[k].rest}
            IN
            /\ \A n \in DOMAIN new : new[n].by = k
            /\ \A j \in DOMAIN tasks : tasks[j].pc = "emit" => j = k
            /\ tasks[k].pc = "emit" => msgs'[tasks[k].cur].emitOk
            /\ \A n, m \in DOMAIN new : n < m => new[n].msg < new[m].msg
            /\ ids \subseteq from
            /\ AllBefore(ids, from \ ids)
            /\ tasks'[k].pc \in {"emit", "delete"} =>
                   /\ tasks'[k].cur = new[Len(new)].msg
                   /\ left = from \ ids
                   /\ \A n, m \in DOMAIN tasks'[k].rest :
                          n < m => tasks'[k].rest[n] < tasks'[k].rest[m]
       ]_vars

\* a batch of two messages was delivered and both were emitted, the first
\* before the second
C25_Witness ==
    /\ lkind \in {"sqs", "cdc"}
    /\ hasSubs
    /\ Len(emitted) = 2
    /\ emitted[1].msg = 1
    /\ emitted[2].msg = 2
    /\ msgs[1].emitOk
    /\ redeliveries = 0
    /\ \E k \in DOMAIN tasks : tasks[k].pc = "emit" /\ tasks[k].cur = 2

\* the subscribers a callback invocation exists for, for the event of
\* emission r
InvokedFor(r) == {cbTasks[i].sub : i \in TasksOf(r)}

\* in this step emit() starts the emission with index r
EmissionStarts(r) == Len(requests) = r - 1 /\ Len(requests') = r

\* C26: the subscribers of an emission are those registered when it starts:
\* each of them is invoked once for the event, a registration during the
\* emission adds no invocation for it and leaves the emission as it is, and
\* an emission that starts later invokes the new subscriber too.
C26_SubscribersFixedAtStart ==
    /\ [](\A r \in DOMAIN requests :
            /\ InvokedFor(r) = 1..requests[r].subs
            /\ Cardinality(TasksOf(r)) = requests[r].subs
            /\ requests[r].subs <= Len(callbacks))
    /\ [][\A r \in 1..MaxEmits :
            EmissionStarts(r) =>
                /\ requests'[r].subs = Len(callbacks)
                /\ {cbTasks'[i].sub : i \in {j \in DOMAIN cbTasks' :
                                               cbTasks'[j].req = r}}
                       = 1..Len(callbacks)]_vars
    /\ [][Len(callbacks') > Len(callbacks) =>
            /\ cbTasks' = cbTasks
            /\ requests' = requests
            /\ events' = events]_vars

\* a subscriber registered while the first emission was in flight has no
\* invocation for its event, and was invoked for the second event
C26_Witness ==
    /\ Len(requests) = 2
    /\ requests[1].pc = "gather"
    /\ requests[1].subs = 1
    /\ InvokedFor(1) = {1}
    /\ InvokedFor(2) = {1, 2}
    /\ \E i \in TasksOf(2) : cbTasks[i].sub = 2 /\ cbTasks[i].st = "done"

\* C27: a register() or unregister() that interleaves with a start_all() or
\* stop_all() in progress never makes that bulk call fail: no bulk call
\* ends with the error of a mapping that changed during the iteration.
C27_BulkSurvivesChanges == bulk.result # "runtime_error"

\* C28: after every step the registry holds at most one source per id (it
\* starts empty); register() of a source
\* whose id is already present overwrites the entry: get(id) then returns the
\* newly registered source, list_all() holds exactly one source with that id
\* and as many sources as before, and "total" of get_stats() is unchanged.
C28_OnePerId ==
    [][/\ \A i, j \in DOMAIN ListAll' :
              IdOf(ListAll'[i]) = IdOf(ListAll'[j]) => i = j
       /\ \A s \in Objects :
              ((\E o \in Registered : IdOf(o) = IdOf(s)) /\ Register(s)) =>
                  /\ Get(IdOf(s))' = Some(s)
                  /\ Cardinality({i \in DOMAIN ListAll' :
                                     IdOf(ListAll'[i]) = IdOf(s)}) = 1
                  /\ Len(ListAll') = Len(ListAll)
                  /\ GetStats'["total"] = GetStats["total"]
      ]_vars

\* s1 was started while it was registered, and a second object with its id
\* has taken its slot: the registry now answers with the stopped newcomer
C28_Witness ==
    /\ entries = <<Twin>>
    /\ status["s1"] = RUNNING
    /\ status[Twin] = STOPPED
    /\ Get("s1") = Some(Twin)
    /\ GetStats["total"] = 1

\* the bulk call a step belongs to: the call in progress, or the call the
\* step begins
SteppingBulk == IF bulk.op # None THEN bulk.op ELSE bulk'.op

\* C29: start_all() and stop_all() are idempotent: start_all() invokes
\* _start() only on a source it did not find Running and stop_all() invokes
\* _stop() only on a source it did not find Stopped; throughout a stop_all()
\* a Stopped source stays Stopped and its _stop() is not invoked, so that a
\* stop_all() that follows a successful stop_all() leaves every source
\* Stopped, and likewise for start_all() and Running.
C29_BulkIdempotent ==
    [][\A s \in Objects :
          /\ startCalls'[s] # startCalls[s] =>
                 /\ SteppingBulk = "start_all"
                 /\ status[s] # RUNNING
                 /\ calls'[BulkTask].saw # RUNNING
          /\ stopCalls'[s] # stopCalls[s] =>
                 /\ SteppingBulk = "stop_all"
                 /\ status[s] # STOPPED
                 /\ calls'[BulkTask].saw # STOPPED
          /\ (SteppingBulk = "stop_all" /\ status[s] = STOPPED) =>
                 /\ status'[s] = STOPPED
                 /\ stopCalls'[s] = stopCalls[s]
          /\ (SteppingBulk = "start_all" /\ status[s] = RUNNING) =>
                 /\ status'[s] = RUNNING
                 /\ startCalls'[s] = startCalls[s]
                 /\ validateCalls'[s] = validateCalls[s]
      ]_vars

\* a source was started and stopped by bulk calls, the stop_all() returned,
\* and a second stop_all() has called stop() on the Stopped source, which
\* returned without invoking _stop() again
C29_Witness ==
    /\ bulk.op = "stop_all"
    /\ bulk.last = "stop_all"
    /\ bulk.result = "returned"
    /\ \E s \in Registered :
           /\ status[s] = STOPPED
           /\ startCalls[s] = 1
           /\ stopCalls[s] = 1
           /\ calls[BulkTask].src = s
           /\ calls[BulkTask].op = "stop"
           /\ calls[BulkTask].pc = "done"
           /\ calls[BulkTask].result = "returned"

Occurrences(k, seq) == Cardinality({i \in DOMAIN seq : seq[i] = k})

\* C30: a failed job is requeued at the tail of the FIFO; when send_fn is
\* called for a job again, it has been called exactly once since the requeue
\* for every job that was in the queue at the requeue; the first send_fn call
\* of a job comes after the first call of every job enqueued before it.
C30_RequeuedAtTail ==
    [][/\ WorkerRequeue => queue' = queue \o <<held>>
       /\ (\E st \in SendResults : WorkerSend(st)) =>
              /\ \A i \in DOMAIN turns[held].ahead :
                     Occurrences(turns[held].ahead[i], turns[held].since) = 1
              /\ sendCalls[held] = 0 =>
                     \A k \in 1..(held - 1) : sendCalls[k] >= 1
      ]_vars

\* job 1 failed and was requeued behind job 2; send_fn has been called for
\* job 2 since, and job 1 is held for its second attempt
C30_Witness ==
    /\ worker = "send"
    /\ held = 1
    /\ sendCalls[1] = 1
    /\ turns[1].ahead = <<2>>
    /\ turns[1].since = <<2>>

\* the places a job can be in besides the worker's hand
SettledJobs ==
    delivered \cup {dead_letters[i] : i \in DOMAIN dead_letters}
              \cup {queue[i] : i \in DOMAIN queue}

\* C31: once stop() has set the flag, the worker leaves its loop at the next
\* test of the flag: send_fn is called at most once more, the worker exits,
\* and the job it held when the flag was set is still held, or delivered,
\* dead-lettered or back in the FIFO, the latter three once the worker has
\* exited.
C31_StopObserved ==
    /\ [][/\ (stopEvent /\ worker = "check" /\ worker' # worker) =>
                 worker' = "exited"
          /\ atStop' # <<>> =>
                 /\ SendCallsMade' <= atStop'[1].calls + 1
                 /\ atStop'[1].held # 0 =>
                        /\ atStop'[1].held \in SettledJobs' \cup {held'}
                        /\ worker' = "exited" =>
                               atStop'[1].held \in SettledJobs'
         ]_vars
    /\ (stopEvent ~> worker = "exited")

\* stop() set the flag while the worker held a job it had not yet tried; the
\* attempt was made and failed, the job went back to the FIFO and the worker
\* has exited
C31_Witness ==
    /\ stopEvent
    /\ worker = "exited"
    /\ atStop[1].held # 0
    /\ SendCallsMade = atStop[1].calls + 1
    /\ \E i \in DOMAIN queue : queue[i] = atStop[1].held

\* the tasks whose start()/stop() call on s has taken the lock and is in its
\* transition, and those suspended in the acquisition
Transitioning(s) ==
    {t \in Tasks : calls[t].src = s /\ calls[t].pc \in {"validate", "body"}}
Queued(s) ==
    {t \in Tasks : calls[t].src = s /\ calls[t].pc = "wait"}

\* C32: the lock of a source is held exactly while one start()/stop() call
\* is in its transition; with no call in progress the lock is free, also when
\* the last transition failed or the source is Running; a call suspended in
\* the acquisition has a transition in progress before it or can take the
\* lock at once.
C32_LockOnlyInTransition ==
    \A s \in Sources :
        /\ lock[s] # None <=> Transitioning(s) # {}
        /\ lock[s] # None => Transitioning(s) = {lock[s]}
        /\ (Transitioning(s) = {} /\ Queued(s) = {}) => LockFree(s)
        /\ {waiters[s][i] : i \in DOMAIN waiters[s]} = Queued(s)
        /\ (Queued(s) # {} /\ lock[s] = None) =>
               ENABLED LockGranted(Head(waiters[s]))

\* a transition of s has failed, its call is over, and a later call has
\* taken the lock and found the source in Error
C32_Witness ==
    \E s \in Sources, t, u \in Clients :
        /\ raised[s] > 0
        /\ calls[t].pc = "done"
        /\ calls[t].result = "raised"
        /\ calls[t].src = s
        /\ calls[u].src = s
        /\ calls[u].pc = "body"
        /\ calls[u].saw = ERROR
        /\ lock[s] = u

\* the loop tasks that are not done
Unfinished == {k \in DOMAIN tasks : tasks[k].pc # "ended"}

CronGiven == Truthy(sched.cron)
IntervalPositive == sched.interval # Nothing /\ sched.interval[1] > 0

\* C34: the constructor of a scheduled source returns exactly when a cron
\* expression or a positive interval is given and raises otherwise; a source
\* constructed with a cron expression has the cron trigger armed by start(),
\* whether or not an interval is given as well.
C34_ConstructionRule ==
    /\ sched.built = "constructed" => (CronGiven \/ IntervalPositive)
    /\ sched.built = "raised" => ~(CronGiven \/ IntervalPositive)
    /\ (sched.armed # None /\ CronGiven) => sched.armed = "cron"

\* C35: Error is left by start() and by stop(): start() on a source in Error
\* runs validate_config() and _start() again (it is never the no-op), and
\* stop() runs _stop(); when either succeeds the status is Running resp.
\* Stopped and the last error is cleared; _stop() also succeeds after a
\* _start() that failed with its consumer or connection already set.
C35_ErrorNotAbsorbing ==
    [][/\ (lstatus = ERROR /\ LoopStart) =>
           /\ lstatus' \in {STARTING, RUNNING, ERROR}
           /\ lstatus' = ERROR <=> (lkind # "queue" /\ ~configOk)
           /\ lstatus' = ERROR => ctl'.raised = ctl.raised + 1
           /\ lstatus' = RUNNING => Unfinished' # {}
       /\ (lstatus = ERROR /\ LoopStop) =>
           lstatus' \in {STOPPING, STOPPED}
       /\ (lstatus' # lstatus /\ lstatus' \in {RUNNING, STOPPED}) =>
           lastErr' = None
       /\ (lstatus' # lstatus /\ lstatus' = STOPPED) =>
            (~consumer' /\ Unfinished' = {})
      ]_vars

\* the _start() of a Kafka or CDC connector failed after the consumer or
\* connection was set; the stop() that followed succeeded and cleared the
\* error
C35_Witness ==
    /\ lkind \in {"kafka", "cdc"}
    /\ ctl.raised = 1
    /\ ctl.pc = "idle"
    /\ ctl.left = 0
    /\ tasks = <<>>
    /\ lstatus = STOPPED
    /\ lastErr = None
    /\ ~consumer

\* C36: a source is Starting or Stopping only while a start()/stop() call on
\* it is in its transition; when no call is, the status is Stopped, Running
\* or Error.
C36_TransitionalOnlyInCall ==
    \A s \in Sources :
        status[s] \in {STARTING, STOPPING} => Transitioning(s) # {}

\* C37: for a connector, a Running or Stopped source has no last error and a
\* source in Error has one; so a start() or stop() that succeeds has cleared
\* the error an earlier failed transition recorded.
C37_LastErrorMatchesStatus ==
    kind = "connector" =>
        \A s \in Sources :
            /\ status[s] \in {RUNNING, STOPPED} => last_error[s] = None
            /\ status[s] = ERROR => last_error[s] # None

\* a transition of a connector failed, and a later start() succeeded: the
\* source is Running without a last error
C37_Witness ==
    /\ kind = "connector"
    /\ \E s \in Sources :
           /\ raised[s] >= 1
           /\ status[s] = RUNNING
           /\ last_error[s] = None
           /\ \E t \in Clients : calls[t].src = s /\ calls[t].saw = ERROR
                                  /\ calls[t].result = "returned"

\* C38: a source whose status is Stopped holds nothing that _start() has
\* acquired: no loop task that is not done, and no consumer, connection or
\* HTTP client.
C38_StoppedHoldsNothing ==
    lstatus = STOPPED => (~consumer /\ Unfinished = {})

\* in this step the registry is changed by register(), unregister() or
\* clear()
MembershipStep ==
    \/ \E s \in Objects : Register(s)
    \/ \E s \in Objects : Unregister(IdOf(s))
    \/ Clear

\* the start()/stop() call of the bulk task on s is in progress
BulkCallOn(s) ==
    /\ calls[BulkTask].src = s
    /\ calls[BulkTask].pc \in {"wait", "validate", "body"}

\* C39: register(), unregister() and clear() change the mapping only: no
\* status, last error, lock, subscriber list or loop of any source changes;
\* a source that is not in the mapping is not touched by start_all() or
\* stop_all() unless the call on it had begun while it was registered, so a
\* Running source that is unregistered stays Running through a later
\* stop_all().
C39_MembershipOnly ==
    [][/\ MembershipStep =>
              UNCHANGED <<lifecycleVars, bulk, webhookVars, loopVars,
                          queueVars, scheduleVars>>
       /\ \A s \in Objects :
              (s \notin Registered /\ ~BulkCallOn(s)) =>
                  /\ status'[s] = status[s]
                  /\ startCalls'[s] = startCalls[s]
                  /\ stopCalls'[s] = stopCalls[s]
                  /\ ~BulkCallOn(s)'
      ]_vars

\* a source was started by start_all(), unregistered, and a stop_all() has
\* returned since: the source is still Running
C39_Witness ==
    \E s \in Objects :
        /\ s \notin Registered
        /\ status[s] = RUNNING
        /\ stopCalls[s] = 0
        /\ bulk.op = None
        /\ bulk.last = "stop_all"
        /\ bulk.result = "returned"


\* the number of the four places (FIFO, worker, dead letters, delivered) in
\* which job j is found, a place counted once for each time it holds j
Places(j) ==
    Occurrences(j, queue) + Occurrences(j, dead_letters)
        + (IF held = j THEN 1 ELSE 0) + (IF j \in delivered THEN 1 ELSE 0)

\* C40: every job accepted by enqueue() is in exactly one of the FIFO, the
\* hands of the worker, the dead-letter list and the delivered jobs, and
\* these hold accepted jobs only; the dead_lettered count of a snapshot is
\* the length of its dead_letters list, and a snapshot reports what the FIFO
\* and the dead-letter list hold at that moment, the held job not included.
C40_JobConservation ==
    /\ \A j \in DOMAIN jobs : Places(j) = 1
    /\ held \in DOMAIN jobs \cup {0}
    /\ delivered \subseteq DOMAIN jobs
    /\ \A i \in DOMAIN queue : queue[i] \in DOMAIN jobs
    /\ \A i \in DOMAIN dead_letters : dead_letters[i] \in DOMAIN jobs
    /\ snap # <<>> =>
           /\ snap[1].dead_lettered = Len(snap[1].dead_letters)
           /\ snap[1].queued <= Len(jobs)

\* a snapshot taken while the worker holds the only pending job reports
\* nothing queued and nothing dead-lettered
C40_Witness ==
    /\ Len(jobs) = 1
    /\ held = 1
    /\ worker \in {"send", "backoff"}
    /\ jobs[1].attempts >= 1
    /\ snap = <<[queued |-> 0, dead_lettered |-> 0, dead_letters |-> <<>>]>>

====
